---- MODULE Spec2Model ----
(***************************************************************************)
(* Distributed-tensor operator dispatch and sharding propagation           *)
(* (torch/distributed/_tensor/dispatch.py).                                *)
(*                                                                         *)
(* One rank runs one operator_dispatch call.  The call's operator, its     *)
(* arguments, the placements of the distributed tensors, the fallback flag *)
(* and the behaviour of the registered sharding rule on the schemas it is  *)
(* asked about are the inputs, drawn from small sets.                      *)
(***************************************************************************)
EXTENDS Integers, Sequences, FiniteSets, TLC

\* ------------------------------------------------------------------ bounds
\* Longest schema_suggestions list a rule returns.
MaxSuggestions == 2

\* ------------------------------------------------------ values and trees
\* Placement of a tensor on the one-dimensional mesh: Shard(0), Replicate,
\* Partial.
Placement == {"S0", "R", "P"}

\* Leaves of an argument tree.  n is an object identity (dt, local) or a
\* plain value (val); p is the placement of a DTensorSpec leaf.
DTensorLeaf(i) == [k |-> "dt", n |-> i, p |-> "-"]
ValueLeaf(v) == [k |-> "val", n |-> v, p |-> "-"]
SpecLeaf(p) == [k |-> "spec", n |-> 0, p |-> p]
LocalLeaf(t) == [k |-> "local", n |-> t, p |-> "-"]

\* A positional argument: a bare leaf, or a list of leaves.
Leaf(x) == [list |-> FALSE, leaves |-> <<x>>]
List(xs) == [list |-> TRUE, leaves |-> xs]
\* A keyword argument.
Kw(name, x) == [name |-> name, leaf |-> x]

RECURSIVE tree_flatten(_)
tree_flatten(a) ==
    IF a = <<>> THEN <<>> ELSE Head(a).leaves \o tree_flatten(Tail(a))


\* tree_unflatten(flat, spec): the leaves put back into the shape spec records.
tree_unflatten_leaves(flat, ts) == [i \in 1..Len(flat) |-> Leaf(flat[i])]
RECURSIVE tree_unflatten(_, _)
tree_unflatten(flat, ts) ==
    IF ts = <<>> THEN <<>>
    ELSE <<[list |-> Head(ts).list, leaves |-> SubSeq(flat, 1, Head(ts).len)]>>
         \o tree_unflatten(SubSeq(flat, Head(ts).len + 1, Len(flat)), Tail(ts))

kwargs_flatten(kw) == [i \in 1..Len(kw) |-> kw[i].leaf]

\* ------------------------------------------------------------- operators
FunctionSchema(name, overload_name, arguments) ==
    [name |-> name, overload_name |-> overload_name, arguments |-> arguments]
Argument(name, is_out) == [name |-> name, is_out |-> is_out]

OpOverload(key, schema) == [key |-> key, schema |-> schema]

add_Tensor ==
    OpOverload("aten.add.Tensor",
        FunctionSchema(<<"a", "d", "d">>, <<"T", "e", "n", "s", "o", "r">>,
            <<Argument("self", FALSE), Argument("other", FALSE),
              Argument("alpha", FALSE)>>))
add__Tensor ==
    OpOverload("aten.add_.Tensor",
        FunctionSchema(<<"a", "d", "d", "_">>, <<"T", "e", "n", "s", "o", "r">>,
            <<Argument("self", FALSE), Argument("other", FALSE),
              Argument("alpha", FALSE)>>))
add_out ==
    OpOverload("aten.add.out",
        FunctionSchema(<<"a", "d", "d">>, <<"o", "u", "t">>,
            <<Argument("self", FALSE), Argument("other", FALSE),
              Argument("alpha", FALSE), Argument("out", TRUE)>>))
frexp_Tensor_out ==
    OpOverload("aten.frexp.Tensor_out",
        FunctionSchema(<<"f", "r", "e", "x", "p">>,
            <<"T", "e", "n", "s", "o", "r", "_", "o", "u", "t">>,
            <<Argument("self", FALSE), Argument("mantissa", TRUE),
              Argument("exponent", TRUE)>>))
cat_default ==
    OpOverload("aten.cat.default",
        FunctionSchema(<<"c", "a", "t">>, <<"d", "e", "f", "a", "u", "l", "t">>,
            <<Argument("tensors", FALSE), Argument("dim", FALSE)>>))
mul_Tensor ==
    OpOverload("aten.mul.Tensor",
        FunctionSchema(<<"m", "u", "l">>, <<"T", "e", "n", "s", "o", "r">>,
            <<Argument("self", FALSE), Argument("other", FALSE)>>))
reshape_alias_default ==
    OpOverload("aten._reshape_alias.default",
        FunctionSchema(<<"_", "r", "e", "s", "h", "a", "p", "e", "_", "a", "l", "i", "a", "s">>,
            <<"d", "e", "f", "a", "u", "l", "t">>,
            <<Argument("self", FALSE), Argument("size", FALSE),
              Argument("stride", FALSE)>>))
convolution_default ==
    OpOverload("aten.convolution.default",
        FunctionSchema(<<"c", "o", "n", "v", "o", "l", "u", "t", "i", "o", "n">>,
            <<"d", "e", "f", "a", "u", "l", "t">>,
            <<Argument("input", FALSE), Argument("weight", FALSE),
              Argument("bias", FALSE), Argument("stride", FALSE),
              Argument("padding", FALSE), Argument("dilation", FALSE),
              Argument("transposed", FALSE), Argument("output_padding", FALSE),
              Argument("groups", FALSE)>>))

convolution_backward_default ==
    OpOverload("aten.convolution_backward.default",
        FunctionSchema(<<"c", "o", "n", "v", "o", "l", "u", "t", "i", "o", "n",
                         "_", "b", "a", "c", "k", "w", "a", "r", "d">>,
            <<"d", "e", "f", "a", "u", "l", "t">>,
            <<Argument("grad_output", FALSE), Argument("input", FALSE),
              Argument("weight", FALSE), Argument("bias_sizes", FALSE),
              Argument("stride", FALSE), Argument("padding", FALSE),
              Argument("dilation", FALSE), Argument("transposed", FALSE),
              Argument("output_padding", FALSE), Argument("groups", FALSE),
              Argument("output_mask", FALSE)>>))
foreach_mul_Tensor ==
    OpOverload("aten._foreach_mul.Tensor",
        FunctionSchema(<<"_", "f", "o", "r", "e", "a", "c", "h", "_", "m", "u", "l">>,
            <<"T", "e", "n", "s", "o", "r">>,
            <<Argument("self", FALSE), Argument("other", FALSE)>>))
foreach_mul_Scalar ==
    OpOverload("aten._foreach_mul.Scalar",
        FunctionSchema(<<"_", "f", "o", "r", "e", "a", "c", "h", "_", "m", "u", "l">>,
            <<"S", "c", "a", "l", "a", "r">>,
            <<Argument("self", FALSE), Argument("scalar", FALSE)>>))

\* op_to_rules: the keys under which a sharding rule is registered.
op_to_rules == {"aten.add.Tensor", "aten.add_.Tensor", "aten.add.out",
                "aten.frexp.Tensor_out", "aten.cat.default",
                "aten.convolution.default", "aten.convolution_backward.default"}
\* The custom_dispatch_ops a caller passes: the halo-exchange handlers under
\* the two convolution operators, alone or with one more override.
BaseCustomOps ==
    [k \in {"aten.convolution.default", "aten.convolution_backward.default"} |->
        IF k = "aten.convolution.default" THEN "tp_convolution"
                                          ELSE "tp_convolution_backward"]
\* _CURRENT_DECOMPOSITION_TABLE: the operators with a decomposition.
CURRENT_DECOMPOSITION_TABLE == {reshape_alias_default}

\* str(op_call)
str(op_call) == op_call.key

\* ------------------------------------------------- OpSchema, OutputSharding
\* OpSchema.__post_init__: both flags are set from the function schema,
\* whatever the constructor was given for them.
post_init_as_given(self) == self

post_init(self) ==
    [self EXCEPT
        !.is_inplace = self.func_schema.name[Len(self.func_schema.name)] = "_",
        !.is_out_variant =
            \E i \in 1..(Len(self.func_schema.overload_name) - 2) :
               SubSeq(self.func_schema.overload_name, i, i + 2) = <<"o", "u", "t">>]

\* OpSchema(func_schema, args_schema, kwargs_schema): the flags default to
\* False and __post_init__ runs on the new object.
OpSchema(func_schema, args_schema, kwargs_schema) ==
    post_init([func_schema |-> func_schema,
               args_schema |-> args_schema,
               kwargs_schema |-> kwargs_schema,
               is_inplace |-> FALSE,
               is_out_variant |-> FALSE])

\* OpSchema.args_spec: the top-level items of args_schema that are
\* DTensorSpecs, in order.
RECURSIVE args_spec(_)
args_spec(args_schema) ==
    IF args_schema = <<>> THEN <<>>
    ELSE (IF ~Head(args_schema).list /\ Head(args_schema).leaves[1].k = "spec"
          THEN <<Head(args_schema).leaves[1]>> ELSE <<>>)
         \o args_spec(Tail(args_schema))

\* output_spec: None, one DTensorSpec, or a tuple of DTensorSpecs.
NoneSpec == [kind |-> "none", specs |-> <<>>]
SingleSpec(p) == [kind |-> "single", specs |-> <<p>>]

\* schema_suggestions: None or a list of OpSchemas.
NoSuggestions == [is_none |-> TRUE, list |-> <<>>]
Suggestions(l) == [is_none |-> FALSE, list |-> l]

OutputSharding(output_spec, schema_suggestions, failed_reason) ==
    [output_spec |-> output_spec,
     schema_suggestions |-> schema_suggestions,
     failed_reason |-> failed_reason]

\* What one invocation of a rule function does: raise, or return an
\* OutputSharding.
RuleRaises == [raises |-> TRUE, os |-> OutputSharding(NoneSpec, NoSuggestions, "None")]
RuleReturns(os) == [raises |-> FALSE, os |-> os]

\* unwrap_schema: a DTensor becomes its DTensorSpec, anything else is kept.
unwrap_schema(x, spec_of) == IF x.k = "dt" THEN SpecLeaf(spec_of[x.n].specs[1]) ELSE x
\* unwrap_local_tensor: a DTensor becomes its local shard.
unwrap_local_tensor(x, local_of) == IF x.k = "dt" THEN LocalLeaf(local_of[x.n]) ELSE x

\* tree_map over positional arguments and over keyword arguments.
args_schema_of(a, spec_of) ==
    [i \in 1..Len(a) |->
        [list |-> a[i].list,
         leaves |-> [j \in 1..Len(a[i].leaves) |-> unwrap_schema(a[i].leaves[j], spec_of)]]]
kwargs_schema_of(kw, spec_of) ==
    [i \in 1..Len(kw) |-> Kw(kw[i].name, unwrap_schema(kw[i].leaf, spec_of))]

\* ---------------------------------------------------------------- errors
Error(type, msg, op_key, schema, reason, cause) ==
    [type |-> type, msg |-> msg, op_key |-> op_key, schema |-> schema,
     reason |-> reason, cause |-> cause]
NoError == Error("", "", "", <<>>, "", "")
\* The exception a rule function raises.
RuleException == Error("ValueError", "rule failed", "", <<>>, "", "")

\* ------------------------------------------------ propagate_input_sharding
Return(target_schema, redistribute, output_sharding, rule_calls) ==
    [kind |-> "return", target_schema |-> <<target_schema>>,
     redistribute |-> redistribute, output_sharding |-> output_sharding,
     error |-> NoError, rule_calls |-> rule_calls]
Raise(error, rule_calls) ==
    [kind |-> "raise", target_schema |-> <<>>, redistribute |-> FALSE,
     output_sharding |-> <<>>, error |-> error, rule_calls |-> rule_calls]

\* The rule registered for the operator, as the function it is: rule_first
\* is what it does on the schema built from the call, rule_other what it
\* does on any other schema.
sharding_prop_func(s, op_schema, rule_first, rule_other) ==
    IF s = op_schema THEN rule_first ELSE rule_other

\* if sharding_prop_func is None: raise unless _ENABLE_FALLBACK, else hand
\* the schema back with no output sharding.
no_rule_registered_flipped(op_key, op_schema, enable_fallback) ==
    IF enable_fallback
    THEN Raise(Error("NotImplementedError",
                     "does not have a DistributedTensor rule registered",
                     op_key, <<>>, "", ""), <<>>)
    ELSE Return(op_schema, FALSE, <<>>, <<>>)

no_rule_registered(op_key, op_schema, enable_fallback) ==
    IF ~enable_fallback
    THEN Raise(Error("NotImplementedError",
                     "does not have a DistributedTensor rule registered",
                     op_key, <<>>, "", ""), <<>>)
    ELSE Return(op_schema, FALSE, <<>>, <<>>)

\* target_schema = output_sharding.schema_suggestions[0]
first_suggestion_last(schema_suggestions) ==
    schema_suggestions.list[Len(schema_suggestions.list)]

first_suggestion(schema_suggestions) == schema_suggestions.list[1]

\* output_sharding = sharding_prop_func(target_schema)
\* return target_schema, True, output_sharding
retry_with_suggestion_again(target_schema, op_schema, rule_first, rule_other) ==
    LET second == sharding_prop_func(target_schema, op_schema, rule_first, rule_other)
    IN  IF second.raises
        THEN Raise(RuleException, <<op_schema, target_schema>>)
        ELSE IF second.os.output_spec.kind = "none"
                /\ second.os.schema_suggestions.list # <<>>
        THEN LET again == second.os.schema_suggestions.list[1]
                 third == sharding_prop_func(again, op_schema, rule_first, rule_other)
             IN  IF third.raises
                 THEN Raise(RuleException, <<op_schema, target_schema, again>>)
                 ELSE Return(again, TRUE, <<third.os>>,
                             <<op_schema, target_schema, again>>)
        ELSE Return(target_schema, TRUE, <<second.os>>, <<op_schema, target_schema>>)

retry_with_suggestion(target_schema, op_schema, rule_first, rule_other) ==
    LET second == sharding_prop_func(target_schema, op_schema, rule_first, rule_other)
    IN  IF second.raises
        THEN Raise(RuleException, <<op_schema, target_schema>>)
        ELSE Return(target_schema, TRUE, <<second.os>>, <<op_schema, target_schema>>)

propagate_input_sharding(op_call, a, kw, rules, rule_first, rule_other, enable_fallback, spec_of) ==
    LET op_schema == OpSchema(op_call.schema, args_schema_of(a, spec_of),
                              kwargs_schema_of(kw, spec_of))
        op_key == str(op_call)
        first == sharding_prop_func(op_schema, op_schema, rule_first, rule_other)
    IN  IF op_key \notin rules
        THEN no_rule_registered(op_key, op_schema, enable_fallback)
        ELSE IF first.raises
        THEN Raise(Error("RuntimeError", "Sharding propagation failed on op ... Error",
                         op_key, <<op_schema>>, "", RuleException.type),
                   <<op_schema>>)
        ELSE IF first.os.output_spec.kind = "none"
        THEN IF ~first.os.schema_suggestions.is_none
             THEN IF first.os.schema_suggestions.list = <<>>
                  THEN Raise(Error("IndexError", "list index out of range",
                                   "", <<>>, "", ""), <<op_schema>>)
                  ELSE retry_with_suggestion(first_suggestion(first.os.schema_suggestions),
                                             op_schema, rule_first, rule_other)
             ELSE Raise(Error("RuntimeError",
                              "Sharding propagation failed on op ... Failed reason",
                              op_key, <<op_schema>>, first.os.failed_reason, ""),
                        <<op_schema>>)
        ELSE Return(op_schema, FALSE, <<first.os>>, <<op_schema>>)

\* ------------------------------------- pack_args_kwargs_with_local_tensor
\* redistribute_dtensor: a new DTensor with the target placement; its local
\* shard is a new tensor unless the placement is already the target one.
redistribute_dtensor(id, placement, spec_of, local_of, next_id) ==
    [id |-> next_id,
     spec_of |-> spec_of @@ (next_id :> SingleSpec(placement)),
     local_of |-> local_of @@
        (next_id :> IF spec_of[id] = SingleSpec(placement) THEN local_of[id] ELSE next_id),
     next_id |-> next_id + 1]


\* The loop of pack_args_kwargs_with_local_tensor over the flattened
\* arguments, from index i on.  acc holds flatten_args_schema and the heap.
RECURSIVE pack_loop(_, _, _, _)
pack_loop(flatten_args, i, redistribute_with_schema, acc) ==
    IF i > Len(flatten_args) THEN acc
    ELSE LET arg == flatten_args[i] IN
         IF arg.k = "dt"
         THEN IF redistribute_with_schema
              THEN LET target_spec == acc.flatten_args_schema[i]
                       r == redistribute_dtensor(arg.n, target_spec.p, acc.spec_of,
                                                 acc.local_of, acc.next_id)
                   IN  pack_loop(flatten_args, i + 1, redistribute_with_schema,
                           [flatten_args_schema |->
                                [acc.flatten_args_schema EXCEPT
                                    ![i] = LocalLeaf(r.local_of[r.id])],
                            spec_of |-> r.spec_of,
                            local_of |-> r.local_of,
                            next_id |-> r.next_id,
                            redist_log |-> Append(acc.redist_log,
                                [src |-> arg.n, target |-> target_spec.p, new |-> r.id])])
              ELSE pack_loop(flatten_args, i + 1, redistribute_with_schema,
                       [acc EXCEPT !.flatten_args_schema[i] =
                                       LocalLeaf(acc.local_of[arg.n])])
         ELSE pack_loop(flatten_args, i + 1, redistribute_with_schema, acc)

pack_args_kwargs_with_local_tensor_as_is(flatten_args, flatten_args_schema, redistribute_with_schema, heap) ==
    pack_loop(flatten_args, 1, FALSE,
        [flatten_args_schema |-> flatten_args_schema,
         spec_of |-> heap.spec_of,
         local_of |-> heap.local_of,
         next_id |-> heap.next_id,
         redist_log |-> heap.redist_log])

\* The same, redistributing whatever the flag.
pack_args_kwargs_with_local_tensor_always(flatten_args, flatten_args_schema, redistribute_with_schema, heap) ==
    pack_loop(flatten_args, 1, TRUE,
        [flatten_args_schema |-> flatten_args_schema,
         spec_of |-> heap.spec_of,
         local_of |-> heap.local_of,
         next_id |-> heap.next_id,
         redist_log |-> heap.redist_log])

pack_args_kwargs_with_local_tensor(flatten_args, flatten_args_schema, redistribute_with_schema, heap) ==
    pack_loop(flatten_args, 1, redistribute_with_schema,
        [flatten_args_schema |-> flatten_args_schema,
         spec_of |-> heap.spec_of,
         local_of |-> heap.local_of,
         next_id |-> heap.next_id,
         redist_log |-> heap.redist_log])

\* ------------------------------------------------------ convolution rules
\* A DTensorSpec as the rules read it: a mesh, one placement per mesh
\* dimension, and the tensor's shape, stride and dtype.
Shard(dim) == [type |-> "shard", dim |-> dim]
Replicate == [type |-> "replicate", dim |-> -1]
Partial == [type |-> "partial", dim |-> -1]
DeviceMesh(name, ndim) == [name |-> name, ndim |-> ndim]
TensorMeta(shape, stride, dtype) == [shape |-> shape, stride |-> stride, dtype |-> dtype]
DTensorSpec(mesh, placements, tensor_meta) ==
    [mesh |-> mesh, placements |-> placements, tensor_meta |-> tensor_meta]

\* DTensorSpec.dim_map: for each tensor dimension the mesh dimension that
\* shards it, or -1.
dim_map(spec) ==
    [d \in 1..Len(spec.tensor_meta.shape) |->
        LET on == {i \in 1..Len(spec.placements) : spec.placements[i] = Shard(d - 1)}
        IN  IF on = {} THEN -1 ELSE (CHOOSE i \in on : \A j \in on : j <= i) - 1]

\* DTensorSpec.sums: the mesh dimensions with a pending reduction.
sums(spec) ==
    SelectSeq([i \in 1..Len(spec.placements) |-> i - 1],
              LAMBDA m : spec.placements[m + 1] = Partial)

\* DTensorSpec.from_dim_map: Replicate everywhere, Partial on the mesh
\* dimensions of sums, Shard(i) on the mesh dimension dim_map[i] names.
from_dim_map(mesh, dim_map_, sums_, tensor_meta) ==
    DTensorSpec(mesh,
        [m \in 1..mesh.ndim |->
            LET dims == {i \in 1..Len(dim_map_) : dim_map_[i] = m - 1}
            IN  IF dims # {}
                THEN Shard((CHOOSE i \in dims : \A j \in dims : j <= i) - 1)
                ELSE IF \E k \in 1..Len(sums_) : sums_[k] = m - 1
                THEN Partial
                ELSE Replicate],
        tensor_meta)


\* H_out and W_out of convolution_rules, each from its own dimension's
\* input size, padding, dilation, kernel size and stride.
conv_out_size_first_dim(in_shape, weight_shape, stride, padding, dilation, d) ==
    (in_shape[d + 2] + 2 * padding[1] - dilation[1] * (weight_shape[3] - 1) - 1)
        \div stride[1] + 1

conv_out_size(in_shape, weight_shape, stride, padding, dilation, d) ==
    (in_shape[d + 2] + 2 * padding[d] - dilation[d] * (weight_shape[d + 2] - 1) - 1)
        \div stride[d] + 1

\* The placements convolution_rules gives its output: those of the input.
conv_output_placement_replicated(input_spec, tensor_meta) ==
    from_dim_map(input_spec.mesh, [d \in 1..Len(tensor_meta.shape) |-> -1], <<>>,
                 tensor_meta)

conv_output_placement(input_spec, tensor_meta) ==
    from_dim_map(input_spec.mesh, dim_map(input_spec), sums(input_spec), tensor_meta)

\* @register_prop_rule(aten.convolution.default)
convolution_rules(op_schema) ==
    LET input_spec == op_schema.args_schema[1]
        weight_spec == op_schema.args_schema[2]
        stride == op_schema.args_schema[4]
        padding == op_schema.args_schema[5]
        dilation == op_schema.args_schema[6]
        in_shape == input_spec.tensor_meta.shape
        weight_shape == weight_spec.tensor_meta.shape
        N == in_shape[1]
        C_out == weight_shape[1]
        H_out == conv_out_size(in_shape, weight_shape, stride, padding, dilation, 1)
        W_out == conv_out_size(in_shape, weight_shape, stride, padding, dilation, 2)
        output_shape == <<N, C_out, H_out, W_out>>
        output_stride == <<C_out * H_out * W_out, H_out * W_out, W_out, 1>>
        tensor_meta == TensorMeta(output_shape, output_stride, input_spec.tensor_meta.dtype)
    IN  OutputSharding(SingleSpec(conv_output_placement(input_spec, tensor_meta)),
                       NoSuggestions, "None")

\* grad_weight_spec and grad_bias_spec of convolution_backward_rules: sharded
\* on no tensor dimension, with a pending sum on mesh dimension 0.
grad_param_spec_replicated(mesh, dim_map_, tensor_meta) ==
    from_dim_map(mesh, dim_map_, <<>>, tensor_meta)

grad_param_spec(mesh, dim_map_, tensor_meta) ==
    from_dim_map(mesh, dim_map_, <<0>>, tensor_meta)

\* @register_prop_rule(aten.convolution_backward.default)
convolution_backward_rules(op_schema) ==
    LET input_spec == op_schema.args_schema[2]
        weight_spec == op_schema.args_schema[3]
        bias_shape_opt == op_schema.args_schema[4]
        weight_tensor_meta == weight_spec.tensor_meta
        bias_tensor_meta == TensorMeta(bias_shape_opt, <<1>>, input_spec.tensor_meta.dtype)
        grad_input_spec == input_spec
        grad_weight_spec == grad_param_spec(input_spec.mesh, <<-1, -1, -1, -1>>, weight_tensor_meta)
        grad_bias_spec == grad_param_spec(input_spec.mesh, <<-1>>, bias_tensor_meta)
    IN  OutputSharding([kind |-> "list",
                        specs |-> <<grad_input_spec, grad_weight_spec, grad_bias_spec>>],
                       NoSuggestions, "None")

\* The identity of the descriptor objects a rule returns.  A descriptor is
\* either the object held at a position of op_schema.args_schema, which is
\* the descriptor of the distributed tensor passed there, or the n-th object
\* the rule constructed (DTensorSpec.from_dim_map constructs one).
\* convolution_rules returns the object from_dim_map constructed.
convolution_rules_objects(op_schema) ==
    <<[from |-> "constructed", at |-> 1]>>
\* convolution_backward_rules binds grad_input_spec to the object unpacked
\* from args_schema[1]; the two others are constructed by from_dim_map.
convolution_backward_rules_objects(op_schema) ==
    LET input_spec == [from |-> "args_schema", at |-> 2]
        grad_input_spec == input_spec
        grad_weight_spec == [from |-> "constructed", at |-> 1]
        grad_bias_spec == [from |-> "constructed", at |-> 2]
    IN  <<grad_input_spec, grad_weight_spec, grad_bias_spec>>

\* ------------------------------------------------------------ call inputs
\* The distributed tensors a call may be given, and the placements they
\* may have when the call is made.
Tensors == {1, 2, 3, 4}

Call_(a, kw) == [args |-> a, kwargs |-> kw]

BinaryArgs ==
    {<<Leaf(DTensorLeaf(1)), Leaf(DTensorLeaf(2))>>,
     <<Leaf(DTensorLeaf(1)), Leaf(ValueLeaf(2))>>,
     <<Leaf(DTensorLeaf(1)), Leaf(DTensorLeaf(1))>>}

CallShapes(op) ==
    IF op \in {add_Tensor, add__Tensor}
    THEN {Call_(a, IF a[2].leaves[1].k = "val" THEN <<Kw("alpha", ValueLeaf(3))>> ELSE <<>>) :
             a \in BinaryArgs}
    ELSE IF op = add_out
    THEN {Call_(a, IF a[2].leaves[1].k = "val"
                   THEN <<Kw("alpha", ValueLeaf(3)), Kw("out", DTensorLeaf(4))>>
                   ELSE <<Kw("out", DTensorLeaf(4))>>) :
             a \in BinaryArgs}
    ELSE IF op = frexp_Tensor_out
    THEN {Call_(<<Leaf(DTensorLeaf(1))>>,
                <<Kw("mantissa", DTensorLeaf(3)), Kw("exponent", DTensorLeaf(4))>>),
          Call_(<<Leaf(DTensorLeaf(1))>>,
                <<Kw("exponent", DTensorLeaf(4)), Kw("mantissa", DTensorLeaf(3))>>)}
    ELSE IF op = cat_default
    THEN {Call_(<<List(<<DTensorLeaf(1), DTensorLeaf(2)>>), Leaf(ValueLeaf(0))>>, <<>>),
          Call_(<<List(<<DTensorLeaf(1), DTensorLeaf(2), DTensorLeaf(3)>>)>>,
                <<Kw("dim", ValueLeaf(1))>>)}
    ELSE IF op = mul_Tensor
    THEN {Call_(<<Leaf(DTensorLeaf(1)), Leaf(DTensorLeaf(2))>>, <<>>),
          Call_(<<Leaf(DTensorLeaf(1)), Leaf(ValueLeaf(2))>>, <<>>)}
    ELSE IF op = reshape_alias_default
    THEN {Call_(<<Leaf(DTensorLeaf(1)), List(<<ValueLeaf(2), ValueLeaf(4)>>),
                  List(<<ValueLeaf(4), ValueLeaf(1)>>)>>, <<>>)}
    ELSE IF op = foreach_mul_Tensor
    THEN {Call_(<<List(<<DTensorLeaf(1), DTensorLeaf(2)>>), Leaf(DTensorLeaf(3))>>, <<>>)}
    ELSE IF op = foreach_mul_Scalar
    THEN {Call_(<<List(<<DTensorLeaf(1), DTensorLeaf(2)>>), Leaf(ValueLeaf(2))>>, <<>>)}
    ELSE IF op = convolution_backward_default
    THEN {Call_(<<Leaf(DTensorLeaf(1)), Leaf(DTensorLeaf(2)), Leaf(DTensorLeaf(3)),
                  List(<<ValueLeaf(4)>>),
                  List(<<ValueLeaf(1), ValueLeaf(1)>>), List(<<ValueLeaf(1), ValueLeaf(1)>>),
                  List(<<ValueLeaf(1), ValueLeaf(1)>>), Leaf(ValueLeaf(0)),
                  List(<<ValueLeaf(0), ValueLeaf(0)>>), Leaf(ValueLeaf(1)),
                  List(<<ValueLeaf(1), ValueLeaf(1), ValueLeaf(1)>>)>>, <<>>)}
    ELSE {Call_(<<Leaf(DTensorLeaf(1)), Leaf(DTensorLeaf(2)), Leaf(DTensorLeaf(3)),
                  List(<<ValueLeaf(1), ValueLeaf(1)>>), List(<<ValueLeaf(1), ValueLeaf(1)>>),
                  List(<<ValueLeaf(1), ValueLeaf(1)>>), Leaf(ValueLeaf(0)),
                  List(<<ValueLeaf(0), ValueLeaf(0)>>), Leaf(ValueLeaf(1))>>, <<>>)}

\* The custom_dispatch_ops a call may be made with.
CustomMaps(op) ==
    IF op \in {reshape_alias_default, add_Tensor}
    THEN {BaseCustomOps,
          [k \in DOMAIN BaseCustomOps \cup {str(op)} |->
              IF k = str(op) THEN "override" ELSE BaseCustomOps[k]]}
    ELSE {BaseCustomOps}

\* The distributed tensors among the leaves of a call.
TensorsOf(shape) ==
    {x.n : x \in {y \in {tree_flatten(shape.args)[i] : i \in 1..Len(tree_flatten(shape.args))}
                      \cup {shape.kwargs[i].leaf : i \in 1..Len(shape.kwargs)} :
                   y.k = "dt"}}

\* A schema suggestion: the call's schema with every DTensorSpec resharded
\* to placement p (the same schema but for its DTensorSpecs), constructed by
\* the rule, which may pass a value for the two flags.
Resharded(schema, p, flag) ==
    post_init([schema EXCEPT
        !.is_inplace = flag,
        !.is_out_variant = flag,
        !.args_schema =
            [i \in 1..Len(@) |->
                [list |-> @[i].list,
                 leaves |-> [j \in 1..Len(@[i].leaves) |->
                     IF @[i].leaves[j].k = "spec" THEN SpecLeaf(p) ELSE @[i].leaves[j]]]],
        !.kwargs_schema =
            [i \in 1..Len(@) |->
                Kw(@[i].name, IF @[i].leaf.k = "spec" THEN SpecLeaf(p) ELSE @[i].leaf)]])

SuggestionLists(schema, n) ==
    UNION {[1..m -> {Resharded(schema, p, flag) : p \in Placement, flag \in BOOLEAN}] :
              m \in 0..n}

OutputSpecs ==
    {SingleSpec(p) : p \in Placement}
    \cup {[kind |-> "tuple", specs |-> <<p, q>>] : p \in Placement, q \in Placement}

\* What a rule may do on the schema built from the call.
RuleFirstOutcomes(schema) ==
    {RuleRaises}
    \cup {RuleReturns(OutputSharding(o, NoSuggestions, "None")) : o \in OutputSpecs}
    \cup {RuleReturns(OutputSharding(NoneSpec, NoSuggestions, r)) :
             r \in {"None", "no rule for these placements"}}
    \cup {RuleReturns(OutputSharding(NoneSpec, Suggestions(l), "None")) :
             l \in SuggestionLists(schema, MaxSuggestions)}

\* What it may do on another schema.
RuleOtherOutcomes(schema) ==
    {RuleRaises}
    \cup {RuleReturns(OutputSharding(o, NoSuggestions, "None")) : o \in OutputSpecs}
    \cup {RuleReturns(OutputSharding(NoneSpec, NoSuggestions, "None"))}
    \cup {RuleReturns(OutputSharding(NoneSpec, Suggestions(l), "None")) :
             l \in SuggestionLists(schema, 1)}

\* ----------------------------------------------- convolution rule inputs
\* The largest spatial size of a convolution input.
MaxSpatial == 8

Meshes == {DeviceMesh("mesh_1d", 1), DeviceMesh("mesh_2d", 2)}
DTypes == {"float32", "float16"}

\* The placements a 4-d tensor may have on a mesh: no tensor dimension is
\* sharded on two mesh dimensions.
PlacementsOn(mesh) ==
    {p \in [1..mesh.ndim -> {Replicate, Partial} \cup {Shard(d) : d \in 0..3}] :
        \A i, j \in 1..mesh.ndim : (i # j /\ p[i].type = "shard") => p[i] # p[j]}
AllReplicate(mesh) == [m \in 1..mesh.ndim |-> Replicate]

\* One spatial dimension of a convolution: input size, kernel size, stride,
\* padding and dilation.
DimGeometry(size, kernel, stride, padding, dilation) ==
    [size |-> size, kernel |-> kernel, stride |-> stride, padding |-> padding,
     dilation |-> dilation]
DimGeometries ==
    {DimGeometry(i, k, s, p, d) :
        i \in 1..MaxSpatial, k \in 1..3, s \in 1..2, p \in 0..1, d \in 1..2}
FewDimGeometries ==
    {DimGeometry(8, 3, 1, 1, 1), DimGeometry(5, 2, 2, 0, 2), DimGeometry(1, 3, 1, 0, 1)}

contiguous_stride(shape) ==
    [i \in 1..Len(shape) |->
        IF i = Len(shape) THEN 1
        ELSE IF i = Len(shape) - 1 THEN shape[Len(shape)]
        ELSE IF i = Len(shape) - 2 THEN shape[Len(shape)] * shape[Len(shape) - 1]
        ELSE shape[Len(shape)] * shape[Len(shape) - 1] * shape[Len(shape) - 2]]

\* The descriptors of a convolution's input (2 x 3 x H x W) and weight
\* (4 x 3 x kH x kW), and of its bias (4).
InputSpec(mesh, placements, h, w, dtype) ==
    DTensorSpec(mesh, placements,
        TensorMeta(<<2, 3, h.size, w.size>>, contiguous_stride(<<2, 3, h.size, w.size>>), dtype))
WeightSpec(mesh, placements, h, w, dtype) ==
    DTensorSpec(mesh, placements,
        TensorMeta(<<4, 3, h.kernel, w.kernel>>,
                   contiguous_stride(<<4, 3, h.kernel, w.kernel>>), dtype))
BiasSpec(mesh, placements, dtype) ==
    DTensorSpec(mesh, placements, TensorMeta(<<4>>, <<1>>, dtype))

\* args_schema of aten.convolution.default.
ConvolutionArgs(input_spec, weight_spec, bias_spec, h, w) ==
    <<input_spec, weight_spec, bias_spec, <<h.stride, w.stride>>,
      <<h.padding, w.padding>>, <<h.dilation, w.dilation>>, FALSE, <<0, 0>>, 1>>

\* args_schema of aten.convolution_backward.default.
ConvolutionBackwardArgs(grad_output_spec, input_spec, weight_spec, h, w) ==
    <<grad_output_spec, input_spec, weight_spec, <<4>>, <<h.stride, w.stride>>,
      <<h.padding, w.padding>>, <<h.dilation, w.dilation>>, FALSE, <<0, 0>>, 1,
      <<TRUE, TRUE, TRUE>>>>

\* The weight and bias descriptors a call comes with: any mesh, replicated
\* or sharded on the output channels, the bias possibly absent.
WeightPlacements(mesh) == {AllReplicate(mesh), [AllReplicate(mesh) EXCEPT ![1] = Shard(0)]}

\* Every geometry with a few descriptors, and every descriptor with a few
\* geometries.
GeometryCalls(mesh, hs, ws) ==
    {ConvolutionArgs(InputSpec(mesh, p, h, w, "float32"),
                     WeightSpec(mesh, AllReplicate(mesh), h, w, "float32"),
                     <<BiasSpec(mesh, AllReplicate(mesh), "float32")>>, h, w) :
        p \in WeightPlacements(mesh), h \in hs, w \in ws}
DescriptorCalls(mesh, wmesh, dtype, wdtype) ==
    {ConvolutionArgs(InputSpec(mesh, p, h, h, dtype),
                     WeightSpec(wmesh, wp, h, h, wdtype), b, h, h) :
        p \in PlacementsOn(mesh), wp \in WeightPlacements(wmesh),
        b \in {<<>>} \cup {<<BiasSpec(wmesh, bp, wdtype)>> : bp \in WeightPlacements(wmesh)}, h \in FewDimGeometries}
ConvolutionCalls ==
    UNION {GeometryCalls(mesh, DimGeometries, FewDimGeometries) : mesh \in Meshes}
    \cup UNION {GeometryCalls(mesh, FewDimGeometries, DimGeometries) : mesh \in Meshes}
    \cup UNION {DescriptorCalls(mesh, wmesh, dtype, wdtype) :
                    mesh \in Meshes, wmesh \in Meshes, dtype \in DTypes,
                    wdtype \in {"float32"}}

BackwardCalls(mesh, wmesh, p) ==
    {ConvolutionBackwardArgs(InputSpec(mesh, gp, h, h, dtype),
                             InputSpec(mesh, p, h, h, dtype),
                             WeightSpec(wmesh, wp, h, h, "float32"), h, h) :
        gp \in {p, AllReplicate(mesh)}, wp \in WeightPlacements(wmesh),
        h \in FewDimGeometries, dtype \in DTypes}
ConvolutionBackwardCalls ==
    UNION {UNION {BackwardCalls(mesh, wmesh, p) : p \in PlacementsOn(mesh)} :
              mesh \in Meshes, wmesh \in Meshes}

\* ------------------------------------------------ tensor-parallel convolution
\* tp_conv.py shards the input of a convolution along its width (tensor
\* dimension 3) and exchanges halo columns between ring neighbours.  A local
\* tensor is modelled along its width: a sequence of columns.  A column is a
\* sum of terms, so that an accumulated gradient shows every contribution it
\* holds; the zero column is the empty sum.
\* A term [col |-> g, by |-> r] is rank r's contribution to the gradient of
\* global input column g; by = -1 marks the input column itself.
zeros(n) == [i \in 1..n |-> <<>>]
weight_shape(kernel) == <<1, 1, kernel, kernel>>     \* (C_out, C_in, H, W)

RECURSIVE cat(_)
cat(tensors) ==
    IF tensors = <<>> THEN <<>> ELSE Head(tensors) \o cat(Tail(tensors))

\* Python's slice t[start:stop] along the width, for integer bounds: a
\* negative bound counts from the end, and a bound outside the tensor is
\* clamped.  -0 is 0, so t[-0:] is the whole tensor and t[:-0] is empty.
slice_index(i, n) ==
    IF i < 0 THEN (IF i + n < 0 THEN 0 ELSE i + n)
    ELSE (IF i > n THEN n ELSE i)
slice(t, start, stop) ==
    LET a == slice_index(start, Len(t))
        b == slice_index(stop, Len(t))
    IN  IF a >= b THEN <<>> ELSE SubSeq(t, a + 1, b)

\* _requires_data_exchange: the width entry of padding, padding[1], decides.
requires_data_exchange_height(padding) == padding[1] # 0
requires_data_exchange(padding) == padding[2] # 0

\* What a call returns or raises.
Returned(value) == [raised |-> "", msg |-> "", value |-> <<value>>]
Raised(type, msg) == [raised |-> type, msg |-> msg, value |-> <<>>]

\* The messages of _is_supported, and those of the operations it guards:
\* torch.add on widths that do not broadcast, a slice assignment of another
\* width, and a received message that does not fit its buffer.
Messages ==
    [dilation |-> "Dilation must be 1 for tensor parallel convolution.",
     stride |-> "Stride must be 1 when there is padding for tensor parallel convolution.",
     kernel |-> "kernel_size[3] // 2 should be less than or equal to input_size[3] for tensor parallel convolution.",
     divisible |-> "It requires that input_size[3] is divisible by stride[1] and stride[1] equals kernel_size[3] when there is padding for tensor parallel convolution.",
     add |-> "The size of tensor a must match the size of tensor b",
     expand |-> "The expanded size of the tensor must match the existing size",
     recv |-> "received message does not have the size of the buffer"]

is_supported_height_dilation(input_size, kernel_size, stride, padding, dilation) ==
    IF dilation[1] # 1 THEN Raised("RuntimeError", Messages.dilation)
    ELSE IF padding[2] # 0
    THEN IF stride[2] # 1 THEN Raised("RuntimeError", Messages.stride)
         ELSE IF kernel_size[4] \div 2 > input_size[4]
         THEN Raised("RuntimeError", Messages.kernel)
         ELSE Returned(TRUE)
    ELSE IF ~(input_size[4] % stride[2] = 0 /\ stride[2] = kernel_size[4])
         THEN Raised("RuntimeError", Messages.divisible)
         ELSE Returned(TRUE)

is_supported_strict_kernel(input_size, kernel_size, stride, padding, dilation) ==
    IF dilation[2] # 1 THEN Raised("RuntimeError", Messages.dilation)
    ELSE IF padding[2] # 0
    THEN IF stride[2] # 1 THEN Raised("RuntimeError", Messages.stride)
         ELSE IF kernel_size[4] \div 2 >= input_size[4]
         THEN Raised("RuntimeError", Messages.kernel)
         ELSE Returned(TRUE)
    ELSE IF ~(input_size[4] % stride[2] = 0 /\ stride[2] = kernel_size[4])
         THEN Raised("RuntimeError", Messages.divisible)
         ELSE Returned(TRUE)

is_supported(input_size, kernel_size, stride, padding, dilation) ==
    IF dilation[2] # 1 THEN Raised("RuntimeError", Messages.dilation)
    ELSE IF padding[2] # 0
    THEN IF stride[2] # 1 THEN Raised("RuntimeError", Messages.stride)
         ELSE IF kernel_size[4] \div 2 > input_size[4]
         THEN Raised("RuntimeError", Messages.kernel)
         ELSE Returned(TRUE)
    ELSE IF ~(input_size[4] % stride[2] = 0 /\ stride[2] = kernel_size[4])
         THEN Raised("RuntimeError", Messages.divisible)
         ELSE Returned(TRUE)

halo_d1(kernel_size) == (kernel_size[4] - 1) \div 2
halo_d2(kernel_size) == (kernel_size[4] - 1) - halo_d1(kernel_size)
right_of(rank, size) == (rank + 1) % size
left_of(rank, size) == (rank - 1 + size) % size

\* The four point-to-point operations of one halo exchange, in the order they
\* are handed to batch_isend_irecv.  The message to the right neighbour is
\* t[-to_right:], the message to the left neighbour is t[:to_left], and each
\* receive buffer is zeros_like the message sent the opposite way.
P2POp(op, tensor, peer) == [op |-> op, tensor |-> tensor, peer |-> peer]
send_to_right(t, to_right) == slice(t, 0 - to_right, Len(t))
send_to_left(t, to_left) == slice(t, 0, to_left)

p2p_op_list_send_left_first(rank, size, t, to_right, to_left) ==
    <<P2POp("isend", send_to_left(t, to_left), left_of(rank, size)),
      P2POp("isend", send_to_right(t, to_right), right_of(rank, size)),
      P2POp("irecv", zeros(Len(send_to_right(t, to_right))), left_of(rank, size)),
      P2POp("irecv", zeros(Len(send_to_left(t, to_left))), right_of(rank, size))>>

p2p_op_list(rank, size, t, to_right, to_left) ==
    <<P2POp("isend", send_to_right(t, to_right), right_of(rank, size)),
      P2POp("isend", send_to_left(t, to_left), left_of(rank, size)),
      P2POp("irecv", zeros(Len(send_to_right(t, to_right))), left_of(rank, size)),
      P2POp("irecv", zeros(Len(send_to_left(t, to_left))), right_of(rank, size))>>

\* batch_isend_irecv returns one request for every operation: the operation
\* and whether it has completed.
batch_isend_irecv(p2p_op_list_) ==
    [i \in 1..Len(p2p_op_list_) |->
        [p2p_op |-> p2p_op_list_[i], done |-> FALSE]]
recv_from_left(reqs) == reqs[3].p2p_op.tensor
recv_from_right(reqs) == reqs[4].p2p_op.tensor

\* for req in reqs: req.wait() returns once every request has completed.
waited_any(reqs) == Len(reqs) = 0 \/ \E i \in 1..Len(reqs) : reqs[i].done
waited_first(reqs) == Len(reqs) = 0 \/ reqs[1].done
waited(reqs) == \A i \in 1..Len(reqs) : reqs[i].done

\* The input with the halo columns attached.
reconstruct_interior(rank, size, in_tensor, from_left, from_right) ==
    cat(<<from_left, in_tensor, from_right>>)

reconstruct(rank, size, in_tensor, from_left, from_right) ==
    IF rank = 0 THEN cat(<<in_tensor, from_right>>)
    ELSE IF rank = size - 1 THEN cat(<<from_left, in_tensor>>)
    ELSE cat(<<from_left, in_tensor, from_right>>)

\* aten.convolution along the width, dilation 1: output column j is the
\* window of kernel-many columns of the zero-padded input starting at column
\* j * stride.
convolution(in_tensor, kernel, stride, padding) ==
    LET padded == cat(<<zeros(padding), in_tensor, zeros(padding)>>)
        n == Len(padded)
        w == IF n < kernel THEN 0 ELSE (n - kernel) \div stride + 1
    IN  [j \in 1..w |-> [t \in 1..kernel |-> padded[(j - 1) * stride + t]]]

\* The output columns a rank keeps.
trim(rank, size, local_results, padding) ==
    LET w == Len(local_results)
    IN  IF rank = 0 THEN slice(local_results, 0, w - padding)
        ELSE IF rank = size - 1 THEN slice(local_results, padding, w)
        ELSE slice(local_results, padding, w - padding)

pad_grad_out(rank, size, grad_out_tensor, padding) ==
    IF rank = 0 THEN cat(<<grad_out_tensor, zeros(padding)>>)
    ELSE IF rank = size - 1 THEN cat(<<zeros(padding), grad_out_tensor>>)
    ELSE cat(<<zeros(padding), grad_out_tensor, zeros(padding)>>)

\* aten.convolution_backward: its first result, grad_input, has the shape of
\* the input it was given; column i is this rank's contribution to the
\* gradient of input column i.
convolution_backward(rank, in_tensor) ==
    [i \in 1..Len(in_tensor) |->
        IF in_tensor[i] = <<>> THEN <<>>
        ELSE <<[col |-> in_tensor[i][1].col, by |-> rank]>>]

\* torch.add: two tensors of the same width are added column by column and a
\* width of 1 is broadcast to the other width; any other pair of widths
\* raises.
add(a, b) ==
    IF Len(a) = Len(b) THEN Returned([i \in 1..Len(a) |-> a[i] \o b[i]])
    ELSE IF Len(b) = 1 THEN Returned([i \in 1..Len(a) |-> a[i] \o b[1]])
    ELSE IF Len(a) = 1 THEN Returned([i \in 1..Len(b) |-> a[1] \o b[i]])
    ELSE Raised("RuntimeError", Messages.add)

\* t[start:stop] = value, in place; a value of width 1 is broadcast, any other
\* width than the slice's raises.
assign_slice(t, start, stop, value) ==
    LET a == slice_index(start, Len(t))
        b == IF slice_index(stop, Len(t)) < a THEN a
             ELSE slice_index(stop, Len(t))
    IN  IF Len(value) = b - a
        THEN Returned([i \in 1..Len(t) |->
                          IF i > a /\ i <= b THEN value[i - a] ELSE t[i]])
        ELSE IF Len(value) = 1
        THEN Returned([i \in 1..Len(t) |->
                          IF i > a /\ i <= b THEN value[1] ELSE t[i]])
        ELSE Raised("RuntimeError", Messages.expand)

\* The aggregation of the gradients of the halo columns.
add_from_right(grad_in, d1, from_right) ==
    LET sum == add(slice(grad_in, 0 - d1, Len(grad_in)), from_right)
    IN  IF sum.raised # "" THEN sum
        ELSE assign_slice(grad_in, 0 - d1, Len(grad_in), sum.value[1])
add_from_left(grad_in, d2, from_left) ==
    LET sum == add(slice(grad_in, 0, d2), from_left)
    IN  IF sum.raised # "" THEN sum
        ELSE assign_slice(grad_in, 0, d2, sum.value[1])
aggregate(rank, size, grad_in_tensor, d1, d2, from_left, from_right) ==
    IF rank = 0
    THEN add_from_right(slice(grad_in_tensor, 0, 0 - d2), d1, from_right)
    ELSE IF rank = size - 1
    THEN add_from_left(slice(grad_in_tensor, d1, Len(grad_in_tensor)), d2,
                      from_left)
    ELSE LET first == add_from_right(slice(grad_in_tensor, d1, 0 - d2), d1,
                                     from_right)
         IN  IF first.raised # "" THEN first
             ELSE add_from_left(first.value[1], d2, from_left)

\* ------------------------------------- tensor-parallel convolution: inputs
MaxKernel == 4
MaxWidth == 2
MaxPadding == 1
Ranks(size) == 0..(size - 1)


\* One collective call: every rank of the ring calls the handler of op_call_
\* with the same hyperparameters on its own shard of the input.
\* Every rank holds the same width, or the last rank holds one column less
\* (a global width that the world size does not divide).
TpCall(size, op_call_, kernel, stride, padding, dilation, widths) ==
    [size |-> size, op_call |-> op_call_, kernel |-> kernel, stride |-> stride,
     padding |-> padding, dilation |-> dilation, widths |-> widths]
TpCalls ==
    UNION {{TpCall(size, op_call_, kernel, stride, padding, dilation, widths) :
               kernel \in 1..MaxKernel, stride \in {<<1, 1>>, <<1, 2>>},
               padding \in {<<p, p>> : p \in 0..MaxPadding} \cup {<<1, 0>>},
               dilation \in {<<1, 1>>, <<2, 2>>, <<2, 1>>},
               widths \in
                   {[r \in Ranks(size) |-> w] : w \in 1..MaxWidth}
                   \cup {[r \in Ranks(size) |->
                             IF r = size - 1 THEN w - 1 ELSE w] :
                            w \in 2..MaxWidth}} :
              size \in {1, 2, 3, 4},
              op_call_ \in {convolution_default, convolution_backward_default}}

RECURSIVE first_column(_, _)
first_column(widths, rank) ==
    IF rank = 0 THEN 0
    ELSE first_column(widths, rank - 1) + widths[rank - 1]
local_input(widths, rank) ==
    [i \in 1..widths[rank] |->
        <<[col |-> first_column(widths, rank) + i - 1, by |-> 0 - 1]>>]

\* ------------------------------------------------------------------ state
VARIABLES
    pc,                  \* where operator_dispatch is
    op_call, args, kwargs,   \* the call
    enable_fallback,     \* _ENABLE_FALLBACK
    custom_dispatch_ops, \* the custom_dispatch_ops argument: key -> handler
    rule_first, rule_other,  \* the registered rule's behaviour
    spec_of, local_of,   \* DTensor._spec and DTensor._local_tensor, by object
    next_id,             \* the next fresh object identity
    propagated,          \* what propagate_input_sharding returned or raised
    local_tensor_args, local_tensor_kwargs,
    redist_log,          \* the redistributions made, in order
    call_log,            \* the callables invoked with their arguments, in order
    spec_writes,         \* the assignments to DTensor._spec, in order
    result,              \* what operator_dispatch returned
    error,               \* what operator_dispatch raised
    conv_pc,             \* where the call of a convolution rule is
    conv_op,             \* the operator whose rule is called
    conv_schema,         \* the OpSchema the rule is called on
    conv_out,            \* the OutputSharding the rule returned
    conv_objects,        \* which object each returned descriptor is
    tp_call,             \* the collective call of a tensor-parallel handler
    tp_in,               \* each rank's local input
    tp_pc,               \* where each rank is in the handler
    tp_reqs,             \* each rank's requests of its latest batch
    tp_net,              \* the messages in flight, by (source, destination)
    tp_grad,             \* the grad_input each rank's local operator returned
    tp_posted,           \* the point-to-point operations each rank posted
    tp_calls,            \* the local operator calls each rank made
    tp_out               \* what the handler returned or raised on each rank

vars == <<pc, op_call, args, kwargs, enable_fallback, custom_dispatch_ops,
          rule_first, rule_other,
          spec_of, local_of, next_id, propagated, local_tensor_args,
          local_tensor_kwargs, redist_log, call_log, spec_writes, result, error,
          conv_pc, conv_op, conv_schema, conv_out, conv_objects,
          tp_call, tp_in, tp_pc, tp_reqs, tp_net, tp_grad, tp_posted, tp_calls,
          tp_out>>

dispatch_vars ==
    <<pc, op_call, args, kwargs, enable_fallback, custom_dispatch_ops,
      rule_first, rule_other, spec_of, local_of, next_id, propagated,
      local_tensor_args, local_tensor_kwargs, redist_log, call_log, spec_writes,
      result, error>>
conv_vars == <<conv_pc, conv_op, conv_schema, conv_out, conv_objects>>
halo_vars ==
    <<tp_call, tp_in, tp_pc, tp_reqs, tp_net, tp_grad, tp_posted, tp_calls,
      tp_out>>

NoResult == [is_tuple |-> FALSE, items |-> <<>>]

Init ==
    /\ pc = "idle"
    /\ op_call = add_Tensor
    /\ args = <<>>
    /\ kwargs = <<>>
    /\ enable_fallback = FALSE
    /\ custom_dispatch_ops = BaseCustomOps
    /\ rule_first = RuleRaises
    /\ rule_other = RuleRaises
    /\ spec_of = [t \in Tensors |-> SingleSpec("R")]
    /\ local_of = [t \in Tensors |-> t]
    /\ next_id = Cardinality(Tensors) + 1
    /\ propagated = Raise(NoError, <<>>)
    /\ local_tensor_args = <<>>
    /\ local_tensor_kwargs = <<>>
    /\ redist_log = <<>>
    /\ call_log = <<>>
    /\ spec_writes = <<>>
    /\ result = NoResult
    /\ error = NoError
    /\ conv_pc = "idle"
    /\ conv_op = convolution_default
    /\ conv_schema = OpSchema(convolution_default.schema, <<>>, <<>>)
    /\ conv_out = OutputSharding(NoneSpec, NoSuggestions, "None")
    /\ conv_objects = <<>>
    /\ tp_call = TpCall(0, convolution_default, 1, <<1, 1>>, <<0, 0>>, <<1, 1>>,
                        <<>>)
    /\ tp_in = <<>>
    /\ tp_pc = <<>>
    /\ tp_reqs = <<>>
    /\ tp_net = <<>>
    /\ tp_grad = <<>>
    /\ tp_posted = <<>>
    /\ tp_calls = <<>>
    /\ tp_out = <<>>

\* The branch operator_dispatch takes: the decomposition table is looked up
\* first, then custom_dispatch_ops, and only then the sharding propagation.
dispatch_route_custom_first(op, decomposition_table, custom) ==
    IF str(op) \in DOMAIN custom THEN "custom"
    ELSE IF op \in decomposition_table THEN "decomposition"
    ELSE "propagate"

dispatch_route(op, decomposition_table, custom) ==
    IF op \in decomposition_table THEN "decomposition"
    ELSE IF str(op) \in DOMAIN custom THEN "custom"
    ELSE "propagate"


\* The caller invokes the operator on distributed tensors.
Call ==
    /\ pc = "idle"
    /\ \E op \in {add_Tensor, add__Tensor, add_out, frexp_Tensor_out, cat_default,
                 mul_Tensor, reshape_alias_default, convolution_default,
                 convolution_backward_default, foreach_mul_Tensor, foreach_mul_Scalar} :
       \E shape \in CallShapes(op) :
       \E so \in [Tensors -> {"S0", "R"}] :
       \E fb \in BOOLEAN :
       \E custom \in CustomMaps(op) :
          LET sp == [t \in Tensors |-> SingleSpec(so[t])]
              schema == OpSchema(op.schema, args_schema_of(shape.args, sp),
                                 kwargs_schema_of(shape.kwargs, sp))
              ruled == /\ dispatch_route(op, CURRENT_DECOMPOSITION_TABLE, custom) = "propagate"
                       /\ str(op) \in op_to_rules
          IN  /\ \A t \in Tensors \ TensorsOf(shape) : so[t] = "R"
              /\ \E r1 \in (IF ruled THEN RuleFirstOutcomes(schema) ELSE {RuleRaises}) :
                 \E r2 \in (IF /\ ruled /\ ~r1.raises
                               /\ r1.os.output_spec.kind = "none"
                               /\ r1.os.schema_suggestions.list # <<>>
                            THEN RuleOtherOutcomes(schema)
                            ELSE {RuleRaises}) :
                    /\ op_call' = op
                    /\ args' = shape.args
                    /\ kwargs' = shape.kwargs
                    /\ spec_of' = sp
                    /\ enable_fallback' = fb
                    /\ custom_dispatch_ops' = custom
                    /\ rule_first' = r1
                    /\ rule_other' = r2
    /\ pc' = "dispatch"
    /\ UNCHANGED <<conv_vars, halo_vars, local_of, next_id, propagated, local_tensor_args,
                   local_tensor_kwargs, redist_log, call_log, spec_writes,
                   result, error>>

\* ------------------------------------------------------ operator_dispatch
Invocation(fn, a, kw) == [fn |-> fn, args |-> a, kwargs |-> kw]
Opaque(fn) == [k |-> fn, n |-> 0, p |-> "-"]
SpecWrite(obj, spec) == [obj |-> obj, spec |-> spec]

\* if op_call in _CURRENT_DECOMPOSITION_TABLE: return the decomposition's result
Decompose ==
    /\ pc = "dispatch"
    /\ dispatch_route(op_call, CURRENT_DECOMPOSITION_TABLE, custom_dispatch_ops) = "decomposition"
    /\ call_log' = Append(call_log, Invocation("decomposition", args, kwargs))
    /\ result' = [is_tuple |-> FALSE, items |-> <<Opaque("decomposition")>>]
    /\ pc' = "returned"
    /\ UNCHANGED <<conv_vars, halo_vars, op_call, args, kwargs, enable_fallback, custom_dispatch_ops,
                   rule_first, rule_other,
                   spec_of, local_of, next_id, propagated, local_tensor_args,
                   local_tensor_kwargs, redist_log, spec_writes, error>>


\* The operator overload as a value among the arguments.
OverloadLeaf(op) == [k |-> "op", n |-> 0, p |-> op.key]

\* tp_convolution(op_call, *local_tensor_args, **local_tensor_kwargs) and
\* tp_convolution_backward bind their first parameter to the first positional
\* argument and local_tensor_args to the others.
bind_handler(positional) ==
    [op_call |-> positional[1], local_tensor_args |-> Tail(positional)]

\* The assertions at the entry of the handler: the first parameter is the
\* handler's operator and 9 (backward: 11) positional arguments follow.
entry_assertions(handler, positional) ==
    IF handler = "tp_convolution"
    THEN /\ positional # <<>>
         /\ bind_handler(positional).op_call = Leaf(OverloadLeaf(convolution_default))
         /\ Len(bind_handler(positional).local_tensor_args) = 9
    ELSE IF handler = "tp_convolution_backward"
    THEN /\ positional # <<>>
         /\ bind_handler(positional).op_call = Leaf(OverloadLeaf(convolution_backward_default))
         /\ Len(bind_handler(positional).local_tensor_args) = 11
    ELSE TRUE

\* if str(op_call) in custom_dispatch_ops: return the custom operator's result
CustomDispatch ==
    /\ pc = "dispatch"
    /\ dispatch_route(op_call, CURRENT_DECOMPOSITION_TABLE, custom_dispatch_ops) = "custom"
    /\ LET handler == custom_dispatch_ops[str(op_call)]
           \* custom_dispatch_ops[str(op_call)](*args, **kwargs)
           positional == args
       IN  /\ call_log' = Append(call_log, Invocation(handler, positional, kwargs))
           /\ IF entry_assertions(handler, positional)
              THEN /\ pc' = "returned"
                   /\ result' = [is_tuple |-> FALSE, items |-> <<Opaque(handler)>>]
                   /\ UNCHANGED error
              ELSE /\ pc' = "raised"
                   /\ error' = Error("AssertionError", "", "", <<>>, "", "")
                   /\ UNCHANGED result
    /\ UNCHANGED <<conv_vars, halo_vars, op_call, args, kwargs, enable_fallback, custom_dispatch_ops,
                   rule_first, rule_other,
                   spec_of, local_of, next_id, propagated, local_tensor_args,
                   local_tensor_kwargs, redist_log, spec_writes>>

\* An exception of propagate_input_sharding leaves operator_dispatch at once.
after_propagate_swallowing(r) == "propagated"

after_propagate(r) == IF r.kind = "raise" THEN "raised" ELSE "propagated"

\* target_schema, redistribute, output_sharding = propagate_input_sharding(...)
Propagate ==
    /\ pc = "dispatch"
    /\ dispatch_route(op_call, CURRENT_DECOMPOSITION_TABLE, custom_dispatch_ops) = "propagate"
    /\ propagated' = propagate_input_sharding(op_call, args, kwargs, op_to_rules,
                          rule_first, rule_other, enable_fallback, spec_of)
    /\ pc' = after_propagate(propagated')
    /\ error' = propagated'.error
    /\ UNCHANGED <<conv_vars, halo_vars, op_call, args, kwargs, enable_fallback, custom_dispatch_ops,
                   rule_first, rule_other,
                   spec_of, local_of, next_id, local_tensor_args,
                   local_tensor_kwargs, redist_log, call_log, spec_writes, result>>

target_schema == propagated.target_schema[1]
redistribute == propagated.redistribute
output_sharding == propagated.output_sharding[1]

\* wrap: one new DTensor per descriptor, each holding one of the operator's
\* local results (fresh local tensors).
wrap(descs, spec_of_, local_of_, next) ==
    LET n == Len(descs) IN
    [items |-> [i \in 1..n |-> DTensorLeaf(next + n + i - 1)],
     spec_of |-> spec_of_ @@ [j \in (next + n)..(next + 2 * n - 1) |->
                                 descs[j - next - n + 1]],
     local_of |-> local_of_ @@ [j \in (next + n)..(next + 2 * n - 1) |-> j - n],
     next_id |-> next + 2 * n]

\* The descriptors of an output_spec, one by one.
Descriptors(output_spec) ==
    IF output_spec.kind = "tuple"
    THEN [i \in 1..Len(output_spec.specs) |-> SingleSpec(output_spec.specs[i])]
    ELSE <<output_spec>>

\* if output_sharding is None: run on the local tensors and wrap the result
\* with the first input's descriptor.
FallbackLocal ==
    /\ pc = "propagated"
    /\ propagated.output_sharding = <<>>
    /\ LET tensor_args ==
               [i \in 1..Len(args) |->
                   [list |-> args[i].list,
                    leaves |-> [j \in 1..Len(args[i].leaves) |->
                        unwrap_local_tensor(args[i].leaves[j], local_of)]]]
           tensor_kwargs ==
               [i \in 1..Len(kwargs) |->
                   Kw(kwargs[i].name, unwrap_local_tensor(kwargs[i].leaf, local_of))]
           first_spec == args_spec(target_schema.args_schema)
       IN  /\ call_log' = Append(call_log, Invocation("local_op", tensor_args, tensor_kwargs))
           /\ IF first_spec = <<>>
              THEN /\ pc' = "raised"
                   /\ error' = Error("IndexError", "tuple index out of range", "", <<>>, "", "")
                   /\ UNCHANGED <<spec_of, local_of, next_id, result>>
              ELSE LET w == wrap(<<SingleSpec(first_spec[1].p)>>, spec_of, local_of, next_id)
                   IN  /\ pc' = "returned"
                       /\ result' = [is_tuple |-> FALSE, items |-> w.items]
                       /\ spec_of' = w.spec_of
                       /\ local_of' = w.local_of
                       /\ next_id' = w.next_id
                       /\ UNCHANGED error
    /\ UNCHANGED <<conv_vars, halo_vars, op_call, args, kwargs, enable_fallback, custom_dispatch_ops,
                   rule_first, rule_other,
                   propagated, local_tensor_args, local_tensor_kwargs, redist_log,
                   spec_writes>>

Heap == [spec_of |-> spec_of, local_of |-> local_of, next_id |-> next_id,
         redist_log |-> redist_log]

\* local_tensor_args = pack_args_kwargs_with_local_tensor(args, target_schema.args_schema, ...)
PackArgs ==
    /\ pc = "propagated"
    /\ propagated.output_sharding # <<>>
    /\ LET packed == pack_args_kwargs_with_local_tensor(tree_flatten(args),
                          tree_flatten(target_schema.args_schema), redistribute, Heap)
       IN  /\ local_tensor_args' = tree_unflatten(packed.flatten_args_schema,
               [i \in 1..Len(args) |-> [list |-> args[i].list, len |-> Len(args[i].leaves)]])
           /\ spec_of' = packed.spec_of
           /\ local_of' = packed.local_of
           /\ next_id' = packed.next_id
           /\ redist_log' = packed.redist_log
    /\ pc' = "packed_args"
    /\ UNCHANGED <<conv_vars, halo_vars, op_call, args, kwargs, enable_fallback, custom_dispatch_ops,
                   rule_first, rule_other,
                   propagated, local_tensor_kwargs, call_log, spec_writes, result, error>>

\* local_tensor_kwargs = pack_args_kwargs_with_local_tensor(kwargs, target_schema.kwargs_schema, ...)
PackKwargs ==
    /\ pc = "packed_args"
    /\ LET packed == pack_args_kwargs_with_local_tensor(kwargs_flatten(kwargs),
                          kwargs_flatten(target_schema.kwargs_schema), redistribute, Heap)
       IN  /\ local_tensor_kwargs' = [i \in 1..Len(kwargs) |-> Kw(kwargs[i].name, packed.flatten_args_schema[i])]
           /\ spec_of' = packed.spec_of
           /\ local_of' = packed.local_of
           /\ next_id' = packed.next_id
           /\ redist_log' = packed.redist_log
    /\ pc' = "packed"
    /\ UNCHANGED <<conv_vars, halo_vars, op_call, args, kwargs, enable_fallback, custom_dispatch_ops,
                   rule_first, rule_other,
                   propagated, local_tensor_args, call_log, spec_writes, result, error>>

\* local_results = op_call(*local_tensor_args, **local_tensor_kwargs)
LocalOp ==
    /\ pc = "packed"
    /\ call_log' = Append(call_log,
                          Invocation("local_op", local_tensor_args, local_tensor_kwargs))
    /\ pc' = "computed"
    /\ UNCHANGED <<conv_vars, halo_vars, op_call, args, kwargs, enable_fallback, custom_dispatch_ops,
                   rule_first, rule_other,
                   spec_of, local_of, next_id, propagated, local_tensor_args,
                   local_tensor_kwargs, redist_log, spec_writes, result, error>>

\* self = args[0]; self._spec = output_sharding.output_spec; return self
inplace_results_unassigned(a, output_spec, spec_of_) ==
    [self |-> a[1].leaves[1], spec_of |-> spec_of_, writes |-> <<>>]

inplace_results(a, output_spec, spec_of_) ==
    LET self == a[1].leaves[1]
    IN  [self |-> self,
         spec_of |-> [spec_of_ EXCEPT ![self.n] = output_spec],
         writes |-> <<SpecWrite(self.n, output_spec)>>]

\* if target_schema.is_inplace: set the descriptor of args[0] and return it
InplaceResult ==
    /\ pc = "computed"
    /\ target_schema.is_inplace
    /\ LET done == inplace_results(args, output_sharding.output_spec, spec_of)
       IN  /\ spec_of' = done.spec_of
           /\ spec_writes' = spec_writes \o done.writes
           /\ result' = [is_tuple |-> FALSE, items |-> <<done.self>>]
    /\ pc' = "returned"
    /\ UNCHANGED <<conv_vars, halo_vars, op_call, args, kwargs, enable_fallback, custom_dispatch_ops,
                   rule_first, rule_other,
                   local_of, next_id, propagated, local_tensor_args,
                   local_tensor_kwargs, redist_log, call_log, error>>

\* kwargs[name]: the keyword argument of that name, if any.
kwargs_get(kw, name) ==
    LET hits == SelectSeq(kw, LAMBDA e : e.name = name)
    IN  IF hits = <<>> THEN <<>> ELSE <<hits[1].leaf>>

\* The loop over func_schema.arguments of the out-variant branch, from
\* argument i on; acc holds out_dts, spec_idx (Len(out_dts)), the
\* descriptors assigned so far and the exception raised, if any.
RECURSIVE out_variant_loop(_, _, _, _, _)
out_variant_loop(arguments, i, kw, output_specs, acc) ==
    IF i > Len(arguments) \/ acc.error # NoError THEN acc
    ELSE IF ~arguments[i].is_out
    THEN out_variant_loop(arguments, i + 1, kw, output_specs, acc)
    ELSE LET out_dt == kwargs_get(kw, arguments[i].name)
             spec_idx == Len(acc.out_dts) + 1
         IN  IF out_dt = <<>>
             THEN [acc EXCEPT !.error = Error("KeyError", arguments[i].name, "", <<>>, "", "")]
             ELSE IF spec_idx > Len(output_specs)
             THEN [acc EXCEPT !.error =
                      Error("IndexError", "tuple index out of range", "", <<>>, "", "")]
             ELSE out_variant_loop(arguments, i + 1, kw, output_specs,
                      [spec_of |-> [acc.spec_of EXCEPT ![out_dt[1].n] = output_specs[spec_idx]],
                       writes |-> Append(acc.writes,
                                         SpecWrite(out_dt[1].n, output_specs[spec_idx])),
                       out_dts |-> Append(acc.out_dts, out_dt[1]),
                       error |-> NoError])

Reverse(q) == [i \in 1..Len(q) |-> q[Len(q) + 1 - i]]

out_variant_results_reversed(arguments, kw, output_spec, spec_of_) ==
    out_variant_loop(Reverse(arguments), 1, kw, Descriptors(output_spec),
        [spec_of |-> spec_of_, writes |-> <<>>, out_dts |-> <<>>, error |-> NoError])

out_variant_results(arguments, kw, output_spec, spec_of_) ==
    LET output_specs == Descriptors(output_spec)
        done == out_variant_loop(arguments, 1, kw, output_specs,
                    [spec_of |-> spec_of_, writes |-> <<>>, out_dts |-> <<>>,
                     error |-> NoError])
    IN  IF done.error = NoError /\ Len(done.out_dts) < 1
        THEN [done EXCEPT !.error =
                 Error("AssertionError", "out variant should have at least one out arg",
                       "", <<>>, "", "")]
        ELSE done

\* elif target_schema.is_out_variant: assign the out arguments their descriptors
OutVariantResult ==
    /\ pc = "computed"
    /\ ~target_schema.is_inplace
    /\ target_schema.is_out_variant
    /\ LET done == out_variant_results(target_schema.func_schema.arguments, kwargs,
                                       output_sharding.output_spec, spec_of)
       IN  /\ spec_of' = done.spec_of
           /\ spec_writes' = spec_writes \o done.writes
           /\ error' = done.error
           /\ IF done.error # NoError
              THEN pc' = "raised" /\ UNCHANGED result
              ELSE /\ pc' = "returned"
                   /\ result' = [is_tuple |-> Len(done.out_dts) > 1,
                                  items |-> done.out_dts]
    /\ UNCHANGED <<conv_vars, halo_vars, op_call, args, kwargs, enable_fallback, custom_dispatch_ops,
                   rule_first, rule_other,
                   local_of, next_id, propagated, local_tensor_args,
                   local_tensor_kwargs, redist_log, call_log>>

\* else: return wrap(local_results, output_sharding.output_spec)
WrapResult ==
    /\ pc = "computed"
    /\ ~target_schema.is_inplace
    /\ ~target_schema.is_out_variant
    /\ LET w == wrap(Descriptors(output_sharding.output_spec), spec_of, local_of, next_id)
       IN  /\ result' = [is_tuple |-> output_sharding.output_spec.kind = "tuple",
                          items |-> w.items]
           /\ spec_of' = w.spec_of
           /\ local_of' = w.local_of
           /\ next_id' = w.next_id
    /\ pc' = "returned"
    /\ UNCHANGED <<conv_vars, halo_vars, op_call, args, kwargs, enable_fallback, custom_dispatch_ops,
                   rule_first, rule_other,
                   propagated, local_tensor_args, local_tensor_kwargs, redist_log,
                   call_log, spec_writes, error>>

\* wrap may instead refuse an absent descriptor.
WrapRejects ==
    /\ pc = "computed"
    /\ ~target_schema.is_inplace
    /\ ~target_schema.is_out_variant
    /\ output_sharding.output_spec.kind = "none"
    /\ error' = Error("AssertionError", "", "", <<>>, "", "")
    /\ pc' = "raised"
    /\ UNCHANGED <<conv_vars, halo_vars, op_call, args, kwargs, enable_fallback, custom_dispatch_ops,
                   rule_first, rule_other,
                   spec_of, local_of, next_id, propagated, local_tensor_args,
                   local_tensor_kwargs, redist_log, call_log, spec_writes, result>>

Next ==
    \/ Call
    \/ Decompose
    \/ CustomDispatch
    \/ Propagate
    \/ FallbackLocal
    \/ PackArgs
    \/ PackKwargs
    \/ LocalOp
    \/ InplaceResult
    \/ OutVariantResult
    \/ WrapResult
    \/ WrapRejects

Spec == Init /\ [][Next]_vars

\* ------------------------------------------- calls of the convolution rules
\* propagate_input_sharding builds the OpSchema of a convolution and calls
\* the rule registered for it: output_sharding = sharding_prop_func(op_schema).
CallConvolution ==
    /\ conv_pc = "idle"
    /\ \E a \in ConvolutionCalls :
          conv_schema' = OpSchema(convolution_default.schema, a, <<>>)
    /\ conv_op' = convolution_default
    /\ conv_pc' = "called"
    /\ UNCHANGED <<conv_out, conv_objects, dispatch_vars, halo_vars>>

CallConvolutionBackward ==
    /\ conv_pc = "idle"
    /\ \E a \in ConvolutionBackwardCalls :
          conv_schema' = OpSchema(convolution_backward_default.schema, a, <<>>)
    /\ conv_op' = convolution_backward_default
    /\ conv_pc' = "called"
    /\ UNCHANGED <<conv_out, conv_objects, dispatch_vars, halo_vars>>

ConvolutionRules ==
    /\ conv_pc = "called"
    /\ conv_op = convolution_default
    /\ conv_out' = convolution_rules(conv_schema)
    /\ conv_objects' = convolution_rules_objects(conv_schema)
    /\ conv_pc' = "done"
    /\ UNCHANGED <<conv_op, conv_schema, dispatch_vars, halo_vars>>

ConvolutionBackwardRules ==
    /\ conv_pc = "called"
    /\ conv_op = convolution_backward_default
    /\ conv_out' = convolution_backward_rules(conv_schema)
    /\ conv_objects' = convolution_backward_rules_objects(conv_schema)
    /\ conv_pc' = "done"
    /\ UNCHANGED <<conv_op, conv_schema, dispatch_vars, halo_vars>>

NextConv ==
    \/ CallConvolution
    \/ CallConvolutionBackward
    \/ ConvolutionRules
    \/ ConvolutionBackwardRules

SpecConv == Init /\ [][NextConv]_vars

\* ------------------------------------ tensor-parallel convolution: actions
\* Every rank of the ring runs the handler on its own; the ranks interleave
\* freely and meet only in the point-to-point messages.
OpCall(op_call_, in_tensor, grad_out_tensor, completed) ==
    [op_call |-> op_call_, in_tensor |-> in_tensor,
     grad_out_tensor |-> grad_out_tensor, completed |-> completed]

CallTp ==
    /\ tp_call.size = 0
    /\ \E c \in TpCalls :
          /\ tp_call' = c
          /\ tp_in' = [r \in Ranks(c.size) |-> local_input(c.widths, r)]
          /\ tp_pc' = [r \in Ranks(c.size) |-> "start"]
          /\ tp_reqs' = [r \in Ranks(c.size) |-> <<>>]
          /\ tp_net' = [l \in Ranks(c.size) \X Ranks(c.size) |-> <<>>]
          /\ tp_grad' = [r \in Ranks(c.size) |-> <<>>]
          /\ tp_posted' = [r \in Ranks(c.size) |-> <<>>]
          /\ tp_calls' = [r \in Ranks(c.size) |-> <<>>]
          /\ tp_out' = [r \in Ranks(c.size) |-> Returned(<<>>)]
    /\ UNCHANGED <<dispatch_vars, conv_vars>>

\* Lines 42-52 and 115-126: the handler is called with its own operator and
\* argument count, so the two entry assertions pass; what _is_supported
\* raises propagates, and the assertion on what it returns fails on anything
\* but True.
Enter(rank) ==
    /\ tp_pc[rank] = "start"
    /\ LET supported == is_supported(<<1, 1, 1, Len(tp_in[rank])>>,
                                     weight_shape(tp_call.kernel),
                                     tp_call.stride, tp_call.padding,
                                     tp_call.dilation)
       IN  IF supported.raised # ""
           THEN /\ tp_pc' = [tp_pc EXCEPT ![rank] = "raised"]
                /\ tp_out' = [tp_out EXCEPT ![rank] = supported]
           ELSE IF supported.value[1] # TRUE
           THEN /\ tp_pc' = [tp_pc EXCEPT ![rank] = "raised"]
                /\ tp_out' = [tp_out EXCEPT ![rank] =
                                 Raised("AssertionError", "")]
           ELSE /\ tp_pc' = [tp_pc EXCEPT ![rank] = "supported"]
                /\ UNCHANGED tp_out
    /\ UNCHANGED <<tp_call, tp_in, tp_reqs, tp_net, tp_grad, tp_posted,
                   tp_calls, dispatch_vars, conv_vars>>

\* The gradient that arrives for a rank's result: one column for every column
\* of that result.
grad_out(rank, local_results) ==
    [j \in 1..Len(local_results) |-> <<[col |-> j, by |-> rank]>>]

\* Lines 54-56 and 128-130: no data exchange, the local operator runs on the
\* unchanged arguments.
LocalOnly(rank) ==
    /\ tp_pc[rank] = "supported"
    /\ ~requires_data_exchange(tp_call.padding)
    /\ tp_calls' = [tp_calls EXCEPT ![rank] =
            Append(@, OpCall(tp_call.op_call, tp_in[rank],
                             IF tp_call.op_call = convolution_default THEN <<>>
                             ELSE grad_out(rank,
                                           convolution(tp_in[rank],
                                                       tp_call.kernel,
                                                       tp_call.stride[2],
                                                       tp_call.padding[2])),
                             Len(tp_reqs[rank]) = 0))]
    /\ tp_out' = [tp_out EXCEPT ![rank] =
            Returned(IF tp_call.op_call = convolution_default
                     THEN convolution(tp_in[rank], tp_call.kernel,
                                      tp_call.stride[2], tp_call.padding[2])
                     ELSE <<convolution_backward(rank, tp_in[rank])>>)]
    /\ tp_pc' = [tp_pc EXCEPT ![rank] = "returned"]
    /\ UNCHANGED <<tp_call, tp_in, tp_reqs, tp_net, tp_grad, tp_posted,
                   dispatch_vars, conv_vars>>

\* batch_isend_irecv: the operations are posted in list order; a send puts its
\* message on the link to its peer.
RECURSIVE post(_, _, _, _)
post(net, rank, p2p_op_list_, i) ==
    IF i > Len(p2p_op_list_) THEN net
    ELSE LET o == p2p_op_list_[i]
         IN  post(IF o.op = "isend"
                  THEN [net EXCEPT ![<<rank, o.peer>>] =
                           Append(@, [tensor |-> o.tensor, req |-> i])]
                  ELSE net,
                  rank, p2p_op_list_, i + 1)

\* Lines 58-79 and 132-153: the halo exchange of the input is posted.
PostHalo(rank) ==
    /\ tp_pc[rank] = "supported"
    /\ requires_data_exchange(tp_call.padding)
    /\ LET ops == p2p_op_list(rank, tp_call.size, tp_in[rank],
                              halo_d1(weight_shape(tp_call.kernel)),
                              halo_d2(weight_shape(tp_call.kernel)))
       IN  /\ tp_reqs' = [tp_reqs EXCEPT ![rank] = batch_isend_irecv(ops)]
           /\ tp_net' = post(tp_net, rank, ops, 1)
           /\ tp_posted' = [tp_posted EXCEPT ![rank] = @ \o ops]
    /\ tp_pc' = [tp_pc EXCEPT ![rank] = "wait"]
    /\ UNCHANGED <<tp_call, tp_in, tp_grad, tp_calls, tp_out,
                   dispatch_vars, conv_vars>>

\* The communication layer completes a posted receive with the oldest message
\* on the link from its peer; receives from one peer complete in the order
\* they were posted, and the matching send completes with the receive.  A
\* message whose width is not the buffer's makes the receiving rank raise.
Deliver(rank, i) ==
    /\ tp_pc[rank] \in {"wait", "wait_grad"}
    /\ i \in 1..Len(tp_reqs[rank])
    /\ LET o == tp_reqs[rank][i].p2p_op
           link == <<o.peer, rank>>
       IN  /\ o.op = "irecv"
           /\ ~tp_reqs[rank][i].done
           /\ \A j \in 1..(i - 1) :
                 LET e == tp_reqs[rank][j]
                 IN  e.p2p_op.op = "irecv" /\ e.p2p_op.peer = o.peer => e.done
           /\ tp_net[link] # <<>>
           /\ LET m == Head(tp_net[link])
              IN  IF Len(m.tensor) = Len(o.tensor)
                  THEN /\ tp_reqs' =
                            [[tp_reqs EXCEPT ![o.peer][m.req].done = TRUE]
                                EXCEPT ![rank][i] =
                                    [p2p_op |-> P2POp("irecv", m.tensor, o.peer),
                                     done |-> TRUE]]
                       /\ UNCHANGED <<tp_pc, tp_out>>
                  ELSE /\ tp_reqs' =
                            [tp_reqs EXCEPT ![o.peer][m.req].done = TRUE]
                       /\ tp_pc' = [tp_pc EXCEPT ![rank] = "raised"]
                       /\ tp_out' = [tp_out EXCEPT ![rank] =
                                        Raised("RuntimeError", Messages.recv)]
           /\ tp_net' = [tp_net EXCEPT ![link] = Tail(@)]
    /\ UNCHANGED <<tp_call, tp_in, tp_grad, tp_posted, tp_calls,
                   dispatch_vars, conv_vars>>

\* Lines 80-107: after the wait loop the input is reconstructed, the local
\* convolution runs on it and the result is trimmed.
Convolution(rank) ==
    /\ tp_pc[rank] = "wait"
    /\ tp_call.op_call = convolution_default
    /\ waited(tp_reqs[rank])
    /\ LET in_tensor == reconstruct(rank, tp_call.size, tp_in[rank],
                                    recv_from_left(tp_reqs[rank]),
                                    recv_from_right(tp_reqs[rank]))
           local_results == convolution(in_tensor, tp_call.kernel,
                                        tp_call.stride[2], tp_call.padding[2])
       IN  /\ tp_calls' = [tp_calls EXCEPT ![rank] =
                   Append(@, OpCall(tp_call.op_call, in_tensor, <<>>,
                                    \A j \in 1..Len(tp_reqs[rank]) :
                                        tp_reqs[rank][j].done))]
           /\ tp_out' = [tp_out EXCEPT ![rank] =
                   Returned(trim(rank, tp_call.size, local_results,
                                 tp_call.padding[2]))]
    /\ tp_pc' = [tp_pc EXCEPT ![rank] = "returned"]
    /\ UNCHANGED <<tp_call, tp_in, tp_reqs, tp_net, tp_grad, tp_posted,
                   dispatch_vars, conv_vars>>

\* Lines 154-203: after the wait loop the input is reconstructed, grad_out is
\* padded, the local convolution_backward runs, and the halo exchange of its
\* grad_input is posted.
ConvolutionBackward(rank) ==
    /\ tp_pc[rank] = "wait"
    /\ tp_call.op_call = convolution_backward_default
    /\ waited(tp_reqs[rank])
    /\ LET in_tensor == reconstruct(rank, tp_call.size, tp_in[rank],
                                    recv_from_left(tp_reqs[rank]),
                                    recv_from_right(tp_reqs[rank]))
           grad_out_tensor ==
               pad_grad_out(rank, tp_call.size,
                            grad_out(rank,
                                     trim(rank, tp_call.size,
                                          convolution(in_tensor, tp_call.kernel,
                                                      tp_call.stride[2],
                                                      tp_call.padding[2]),
                                          tp_call.padding[2])),
                            tp_call.padding[2])
           grad_in_tensor == convolution_backward(rank, in_tensor)
           ops == p2p_op_list(rank, tp_call.size, grad_in_tensor,
                              halo_d2(weight_shape(tp_call.kernel)),
                              halo_d1(weight_shape(tp_call.kernel)))
       IN  /\ tp_calls' = [tp_calls EXCEPT ![rank] =
                   Append(@, OpCall(tp_call.op_call, in_tensor, grad_out_tensor,
                                    \A j \in 1..Len(tp_reqs[rank]) :
                                        tp_reqs[rank][j].done))]
           /\ tp_grad' = [tp_grad EXCEPT ![rank] = grad_in_tensor]
           /\ tp_reqs' = [tp_reqs EXCEPT ![rank] = batch_isend_irecv(ops)]
           /\ tp_net' = post(tp_net, rank, ops, 1)
           /\ tp_posted' = [tp_posted EXCEPT ![rank] = @ \o ops]
    /\ tp_pc' = [tp_pc EXCEPT ![rank] = "wait_grad"]
    /\ UNCHANGED <<tp_call, tp_in, tp_out, dispatch_vars, conv_vars>>

\* Lines 204-230: after the second wait loop the halo columns are cut off and
\* the neighbours' contributions are added to the edge columns.
Aggregate(rank) ==
    /\ tp_pc[rank] = "wait_grad"
    /\ waited(tp_reqs[rank])
    /\ LET sum == aggregate(rank, tp_call.size, tp_grad[rank],
                            halo_d1(weight_shape(tp_call.kernel)),
                            halo_d2(weight_shape(tp_call.kernel)),
                            recv_from_left(tp_reqs[rank]),
                            recv_from_right(tp_reqs[rank]))
       IN  IF sum.raised # ""
           THEN /\ tp_out' = [tp_out EXCEPT ![rank] = sum]
                /\ tp_pc' = [tp_pc EXCEPT ![rank] = "raised"]
           ELSE /\ tp_out' = [tp_out EXCEPT ![rank] = Returned(sum.value)]
                /\ tp_pc' = [tp_pc EXCEPT ![rank] = "returned"]
    /\ UNCHANGED <<tp_call, tp_in, tp_reqs, tp_net, tp_grad, tp_posted,
                   tp_calls, dispatch_vars, conv_vars>>

NextHalo ==
    \/ CallTp
    \/ \E rank \in Ranks(tp_call.size) : Enter(rank)
    \/ \E rank \in Ranks(tp_call.size) : LocalOnly(rank)
    \/ \E rank \in Ranks(tp_call.size) : PostHalo(rank)
    \/ \E rank \in Ranks(tp_call.size) : \E i \in 1..Len(tp_reqs[rank]) :
          Deliver(rank, i)
    \/ \E rank \in Ranks(tp_call.size) : Convolution(rank)
    \/ \E rank \in Ranks(tp_call.size) : ConvolutionBackward(rank)
    \/ \E rank \in Ranks(tp_call.size) : Aggregate(rank)

SpecHalo == Init /\ [][NextHalo]_vars

\* ---------------------------------------------------------------- claims
\* The schema propagate_input_sharding builds from the call's arguments
\* (as long as no descriptor of an argument has been reassigned).
BuiltSchema ==
    OpSchema(op_call.schema, args_schema_of(args, spec_of), kwargs_schema_of(kwargs, spec_of))

\* propagate_input_sharding has been called: it returned, or it raised.
PropagateReturned == pc = "propagated"
PropagateRaised == pc = "raised" /\ call_log = <<>>

\* The rule's results, as the driver saw them.
FirstResult == sharding_prop_func(BuiltSchema, BuiltSchema, rule_first, rule_other)
RetryResult ==
    sharding_prop_func(propagated.rule_calls[2], BuiltSchema, rule_first, rule_other)
FirstUnresolved == ~FirstResult.raises /\ FirstResult.os.output_spec.kind = "none"

\* C1: one propagate_input_sharding invokes the rule at most twice: first
\* with the schema built from the arguments, then at most once with the
\* first suggestion, whatever the second result is.
C1_AtMostTwoRuleCalls ==
    /\ Len(propagated.rule_calls) <= 2
    /\ (PropagateReturned \/ PropagateRaised) =>
          /\ Len(propagated.rule_calls) >= 1 => propagated.rule_calls[1] = BuiltSchema
          /\ Len(propagated.rule_calls) = 2 =>
                /\ FirstUnresolved
                /\ propagated.rule_calls[2] = FirstResult.os.schema_suggestions.list[1]

\* The retry's result again has no output_spec and again carries suggestions.
C1_Witness ==
    /\ PropagateReturned
    /\ Len(propagated.rule_calls) = 2
    /\ RetryResult.os.output_spec.kind = "none"
    /\ RetryResult.os.schema_suggestions.list # <<>>
    /\ RetryResult.os.schema_suggestions.list[1] # propagated.rule_calls[2]

\* C2: when the retry returns no output_spec, propagate_input_sharding
\* fails, so operator_dispatch never redistributes, runs the local operator
\* or produces a result with an absent output descriptor.
C2_RetryUnresolvedFails ==
    (/\ pc \notin {"idle", "dispatch"}
     /\ Len(propagated.rule_calls) = 2
     /\ propagated.output_sharding # <<>>
     /\ output_sharding.output_spec.kind = "none")
    => /\ propagated.kind = "raise"
       /\ redist_log = <<>>
       /\ call_log = <<>>
       /\ spec_writes = <<>>

\* C3: an exception of the rule, on the first invocation or on the retry,
\* reaches the caller as a RuntimeError that names the op, includes the
\* input schema and chains the rule's exception.
C3_RuleExceptionWrapped ==
    (/\ PropagateRaised
     /\ \E i \in 1..Len(propagated.rule_calls) :
           sharding_prop_func(propagated.rule_calls[i], BuiltSchema,
                              rule_first, rule_other).raises)
    => /\ error.type = "RuntimeError"
       /\ error.op_key = str(op_call)
       /\ error.schema = <<BuiltSchema>>
       /\ error.cause = RuleException.type

\* C4: a first result with no output_spec and no suggestions (None or an
\* empty list) fails with the 'Sharding propagation failed' diagnostic that
\* includes failed_reason, and the rule is not invoked again.
C4_NoSuggestionDiagnostic ==
    (/\ PropagateReturned \/ PropagateRaised
     /\ propagated.rule_calls # <<>>
     /\ FirstUnresolved
     /\ FirstResult.os.schema_suggestions.list = <<>>)
    => /\ PropagateRaised
       /\ error.type = "RuntimeError"
       /\ error.msg = "Sharding propagation failed on op ... Failed reason"
       /\ error.reason = FirstResult.os.failed_reason
       /\ Len(propagated.rule_calls) = 1

\* C5: with no rule registered under the op's key, the driver raises
\* NotImplementedError naming the op when the fallback flag is false and
\* returns (built schema, False, None) when it is true; no rule is invoked.
NoRuleCase ==
    /\ PropagateReturned \/ PropagateRaised
    /\ str(op_call) \notin op_to_rules
C5_NoRuleRegistered ==
    NoRuleCase =>
       /\ propagated.rule_calls = <<>>
       /\ IF enable_fallback
          THEN /\ PropagateReturned
               /\ target_schema = BuiltSchema
               /\ redistribute = FALSE
               /\ propagated.output_sharding = <<>>
          ELSE /\ PropagateRaised
               /\ error.type = "NotImplementedError"
               /\ error.op_key = str(op_call)

C5_Witness == NoRuleCase /\ enable_fallback /\ PropagateReturned

\* C6: redistribute is returned true exactly when the first result had no
\* output_spec and a suggestion was taken; then the returned schema is
\* schema_suggestions[0] and the OutputSharding is the rule's result on it,
\* and no later suggestion is passed to the rule or returned.  Otherwise
\* the built schema and the first result are returned.
C6_RedistributeIffSuggestionTaken ==
    (PropagateReturned /\ str(op_call) \in op_to_rules) =>
       /\ redistribute <=> (FirstUnresolved /\ ~FirstResult.os.schema_suggestions.is_none)
       /\ redistribute =>
             /\ target_schema = FirstResult.os.schema_suggestions.list[1]
             /\ propagated.output_sharding =
                   <<sharding_prop_func(FirstResult.os.schema_suggestions.list[1],
                                        BuiltSchema, rule_first, rule_other).os>>
             /\ \A i \in 1..Len(propagated.rule_calls) :
                   propagated.rule_calls[i] \in
                      {BuiltSchema, FirstResult.os.schema_suggestions.list[1]}
       /\ ~redistribute =>
             /\ target_schema = BuiltSchema
             /\ propagated.output_sharding = <<FirstResult.os>>

\* Two different suggestions were offered.
C6_Witness ==
    /\ PropagateReturned
    /\ redistribute
    /\ Len(FirstResult.os.schema_suggestions.list) >= 2
    /\ FirstResult.os.schema_suggestions.list[2] # FirstResult.os.schema_suggestions.list[1]
    /\ FirstResult.os.schema_suggestions.list[2] # BuiltSchema

\* operator_dispatch went past propagation with an output sharding.
Resolved == propagated.kind = "return" /\ propagated.output_sharding # <<>>

\* C7: an in-place op whose propagation yields a descriptor returns the
\* very object passed as args[0], with its descriptor set to the propagated
\* output_spec and nothing else about it changed, with or without
\* redistribution.
InplaceReturned ==
    /\ pc = "returned"
    /\ Resolved
    /\ target_schema.is_inplace
    /\ output_sharding.output_spec.kind # "none"
C7_InplaceIdentity ==
    InplaceReturned =>
       LET self == args[1].leaves[1]
       IN  /\ result = [is_tuple |-> FALSE, items |-> <<self>>]
           /\ self.k = "dt" /\ self.n \in Tensors
           /\ spec_of[self.n] = output_sharding.output_spec
           /\ local_of[self.n] = self.n
           /\ spec_writes = <<SpecWrite(self.n, output_sharding.output_spec)>>

\* An in-place dispatch in which args[0] was redistributed to another
\* placement and the propagated descriptor differs from the target one.
C7_Witness ==
    /\ InplaceReturned
    /\ redistribute
    /\ \E i \in 1..Len(redist_log) :
          /\ redist_log[i].src = args[1].leaves[1].n
          /\ local_of[redist_log[i].new] # local_of[redist_log[i].src]
    /\ output_sharding.output_spec # SingleSpec(target_schema.args_schema[1].leaves[1].p)

\* C8: an out-variant op assigns the k-th formal out argument, in schema
\* declaration order, the k-th descriptor of the output sharding, and
\* returns the tuple of the out arguments, or the single one.
OutVariantReturned ==
    /\ pc = "returned"
    /\ Resolved
    /\ ~target_schema.is_inplace
    /\ target_schema.is_out_variant
OutArguments == SelectSeq(target_schema.func_schema.arguments, LAMBDA a : a.is_out)
C8_OutVariantAssignment ==
    OutVariantReturned =>
       LET descs == Descriptors(output_sharding.output_spec)
           outs == [k \in 1..Len(OutArguments) |->
                       kwargs_get(kwargs, OutArguments[k].name)[1]]
       IN  /\ Len(outs) >= 1
           /\ Len(outs) <= Len(descs)
           /\ spec_writes = [k \in 1..Len(outs) |-> SpecWrite(outs[k].n, descs[k])]
           /\ \A k \in 1..Len(outs) : spec_of[outs[k].n] = descs[k]
           /\ result = [is_tuple |-> Len(outs) > 1, items |-> outs]

\* Two out arguments, passed in another order than declared, with
\* different descriptors.
C8_Witness ==
    /\ OutVariantReturned
    /\ Len(OutArguments) = 2
    /\ kwargs[1].name = OutArguments[2].name
    /\ output_sharding.output_spec.kind = "tuple"
    /\ output_sharding.output_spec.specs[1] # output_sharding.output_spec.specs[2]

\* C9: when propagate_input_sharding fails, operator_dispatch raises that
\* error at once: no local operator call, no redistribution, no descriptor
\* of an argument modified.
C9_FailurePropagatesImmediately ==
    propagated.error # NoError =>
       /\ pc = "raised"
       /\ error = propagated.error
       /\ call_log = <<>>
       /\ redist_log = <<>>
       /\ spec_writes = <<>>
       /\ local_tensor_args = <<>> /\ local_tensor_kwargs = <<>>
       /\ DOMAIN spec_of = Tensors
       /\ result = NoResult

C9_Witness ==
    /\ pc = "raised"
    /\ propagated.error.msg = "Sharding propagation failed on op ... Failed reason"

\* C10: when redistribution was signaled, every distributed-tensor leaf of
\* args and kwargs has been redistributed to the descriptor at its position
\* in the target schema before the local operator is invoked, and the
\* operator gets the local shards of the redistributed tensors.
DispatchFlat == tree_flatten(args) \o kwargs_flatten(kwargs)
TargetFlat ==
    tree_flatten(target_schema.args_schema) \o kwargs_flatten(target_schema.kwargs_schema)
TensorPositions == {i \in 1..Len(DispatchFlat) : DispatchFlat[i].k = "dt"}
LocalOpInvoked == Resolved /\ call_log # <<>>
C10_RedistributeBeforeLocalOp ==
    /\ pc \in {"propagated", "packed_args", "packed"} => call_log = <<>>
    /\ (Resolved /\ redistribute /\ (pc = "packed" \/ LocalOpInvoked)) =>
          /\ Len(redist_log) = Cardinality(TensorPositions)
          /\ \A i \in TensorPositions :
                LET r == redist_log[Cardinality({j \in TensorPositions : j <= i})]
                    given == tree_flatten(local_tensor_args)
                                 \o kwargs_flatten(local_tensor_kwargs)
                IN  /\ r.src = DispatchFlat[i].n
                    /\ TargetFlat[i].k = "spec"
                    /\ r.target = TargetFlat[i].p
                    /\ r.new \notin Tensors
                    /\ spec_of[r.new] = SingleSpec(r.target)
                    /\ given[i] = LocalLeaf(local_of[r.new])
          /\ LocalOpInvoked =>
                call_log = <<Invocation("local_op", local_tensor_args, local_tensor_kwargs)>>

\* The operator ran on redistributed positional and keyword tensors, one of
\* which got a new placement.
C10_Witness ==
    /\ pc = "computed"
    /\ redistribute
    /\ Len(redist_log) >= 3
    /\ \E i \in 1..Len(kwargs) : kwargs[i].leaf.k = "dt"
    /\ \E i \in 1..Len(redist_log) :
          /\ spec_of[redist_log[i].src] # SingleSpec(redist_log[i].target)
          /\ local_of[redist_log[i].new] # local_of[redist_log[i].src]

\* C11: when propagation resolves without taking a suggestion, or yields no
\* output sharding (fallback), nothing is redistributed and the operator
\* gets, for each distributed tensor of the call, positional, nested or
\* keyword, the local tensor that tensor holds at the time of the call.
FallbackTaken == propagated.kind = "return" /\ propagated.output_sharding = <<>>
GivenFlat ==
    tree_flatten(local_tensor_args) \o kwargs_flatten(local_tensor_kwargs)
LoggedFlat ==
    tree_flatten(call_log[1].args) \o kwargs_flatten(call_log[1].kwargs)
C11_NoRedistributionAsIs ==
    /\ (Resolved /\ ~redistribute /\ (pc = "packed" \/ LocalOpInvoked)) =>
          /\ redist_log = <<>>
          /\ Len(GivenFlat) = Len(DispatchFlat)
          /\ \A i \in TensorPositions :
                /\ DispatchFlat[i].n \in Tensors
                /\ GivenFlat[i] = LocalLeaf(local_of[DispatchFlat[i].n])
          /\ LocalOpInvoked =>
                call_log = <<Invocation("local_op", local_tensor_args, local_tensor_kwargs)>>
    /\ (FallbackTaken /\ pc # "propagated") =>
          /\ redist_log = <<>>
          /\ Len(call_log) = 1
          /\ call_log[1].fn = "local_op"
          /\ Len(LoggedFlat) = Len(DispatchFlat)
          /\ \A i \in TensorPositions :
                LoggedFlat[i] = LocalLeaf(local_of[DispatchFlat[i].n])

\* The operator ran without redistribution on a sharded positional tensor
\* and a keyword tensor.
C11_Witness ==
    /\ pc = "computed"
    /\ Resolved
    /\ ~redistribute
    /\ redist_log = <<>>
    /\ \E i \in 1..Len(kwargs) : kwargs[i].leaf.k = "dt"
    /\ \E i \in TensorPositions :
          /\ spec_of[DispatchFlat[i].n] = SingleSpec("S0")
          /\ GivenFlat[i] = LocalLeaf(DispatchFlat[i].n)

\* C12: for an operator of the decomposition table, operator_dispatch calls
\* the decomposition once with the caller's arguments and returns its result:
\* no rule is looked up or invoked, nothing is redistributed, no descriptor
\* is written and no tensor is wrapped, so the call succeeds also when the
\* operator has no rule and the fallback is disabled.
Dispatched == pc \notin {"idle", "dispatch"}
HasOverride == str(op_call) \in DOMAIN custom_dispatch_ops
NoPropagationEffects ==
    /\ propagated = Raise(NoError, <<>>)
    /\ redist_log = <<>>
    /\ spec_writes = <<>>
    /\ DOMAIN spec_of = Tensors
    /\ next_id = Cardinality(Tensors) + 1
C13_CustomOverrideCalled ==
    (Dispatched /\ HasOverride) =>
        /\ call_log = <<Invocation(custom_dispatch_ops[str(op_call)], args, kwargs)>>
        /\ pc = "returned" =>
               result = [is_tuple |-> FALSE,
                         items |-> <<Opaque(custom_dispatch_ops[str(op_call)])>>]
        /\ NoPropagationEffects

\* C14: an override takes precedence over every other branch of
\* operator_dispatch: whenever the operator has one, the decomposition is
\* not called, also for an operator of the decomposition table.
C14_CustomHighestPriority ==
    (Dispatched /\ HasOverride) =>
        \A i \in 1..Len(call_log) : call_log[i].fn # "decomposition"

\* C15: when operator_dispatch is called with the convolution operator and
\* nine positional arguments (backward: eleven) and the tensor-parallel
\* handler is installed for it, the handler's entry assertions hold: its
\* first parameter is the operator overload and nine (eleven) positional
\* arguments follow it.
HandlerEntered ==
    /\ Dispatched
    /\ call_log # <<>>
    /\ call_log[1].fn \in {"tp_convolution", "tp_convolution_backward"}
C15_HandlerEntryAssertions ==
    HandlerEntered =>
        /\ Len(args) = (IF op_call = convolution_default THEN 9 ELSE 11)
        /\ bind_handler(call_log[1].args).op_call = Leaf(OverloadLeaf(op_call))
        /\ Len(bind_handler(call_log[1].args).local_tensor_args) = Len(args)
        /\ pc = "returned"

\* C16: in the fallback case operator_dispatch calls the operator once on
\* the arguments with every distributed tensor replaced by its local
\* tensor, redistributes nothing, and returns one new distributed tensor
\* whose descriptor is that of the first distributed tensor among the
\* inputs of the call.
FirstTensorInput ==
    DispatchFlat[CHOOSE i \in TensorPositions : \A j \in TensorPositions : i <= j].n
C16_FallbackWrapsFirstInput ==
    (FallbackTaken /\ pc # "propagated") =>
        /\ Len(call_log) = 1
        /\ call_log[1].fn = "local_op"
        /\ \A i \in TensorPositions :
              LoggedFlat[i] = LocalLeaf(local_of[DispatchFlat[i].n])
        /\ redist_log = <<>>
        /\ pc = "returned"
        /\ Len(result.items) = 1
        /\ result.items[1].k = "dt"
        /\ result.items[1].n \notin Tensors
        /\ spec_of[result.items[1].n] = spec_of[FirstTensorInput]

\* C17: when every input descriptor of a convolution rule is Replicate on
\* every mesh dimension, every output descriptor the rule resolves to is
\* Replicate on every mesh dimension too (no Shard, no Partial).
RuleReturned == conv_pc = "done"
ForwardReturned == RuleReturned /\ conv_op = convolution_default
BackwardReturned == RuleReturned /\ conv_op = convolution_backward_default
InputDescriptors ==
    IF conv_op = convolution_default
    THEN <<conv_schema.args_schema[1], conv_schema.args_schema[2]>>
             \o conv_schema.args_schema[3]
    ELSE <<conv_schema.args_schema[1], conv_schema.args_schema[2],
           conv_schema.args_schema[3]>>
OutputDescriptors == conv_out.output_spec.specs
FullyReplicate(spec) ==
    \A m \in 1..Len(spec.placements) : spec.placements[m] = Replicate
C17_ReplicatePassthrough ==
    (RuleReturned /\ \A i \in 1..Len(InputDescriptors) : FullyReplicate(InputDescriptors[i])) =>
        \A i \in 1..Len(OutputDescriptors) : FullyReplicate(OutputDescriptors[i])

\* C18: convolution_rules gives its output the shape [N, C_out, H_out,
\* W_out]: N from the input, C_out from the weight, and each spatial size
\* the floor of (in + 2*pad - dilation*(kernel-1) - 1) / stride, plus 1,
\* from that dimension's own sizes; 8, 3, 1, 1, 1 give 8.
ConvIn == conv_schema.args_schema[1].tensor_meta.shape
ConvWeight == conv_schema.args_schema[2].tensor_meta.shape
ConvStride == conv_schema.args_schema[4]
ConvPadding == conv_schema.args_schema[5]
ConvDilation == conv_schema.args_schema[6]
ConvOutShape == OutputDescriptors[1].tensor_meta.shape
Numerator(d) ==
    ConvIn[d + 2] + 2 * ConvPadding[d] - ConvDilation[d] * (ConvWeight[d + 2] - 1) - 1
C18_OutputShape ==
    ForwardReturned =>
        /\ Len(ConvOutShape) = 4
        /\ ConvOutShape[1] = ConvIn[1]
        /\ ConvOutShape[2] = ConvWeight[1]
        /\ \A d \in 1..2 :
              /\ (ConvOutShape[d + 2] - 1) * ConvStride[d] <= Numerator(d)
              /\ Numerator(d) < ConvOutShape[d + 2] * ConvStride[d]
              /\ (/\ ConvIn[d + 2] = 8
                  /\ ConvWeight[d + 2] = 3
                  /\ ConvStride[d] = 1
                  /\ ConvPadding[d] = 1
                  /\ ConvDilation[d] = 1) => ConvOutShape[d + 2] = 8

\* The rule returned for a "same" convolution along H (8, 3, 1, 1, 1 -> 8)
\* and a strided one along W whose division is not exact.
C18_Witness ==
    /\ ForwardReturned
    /\ ConvIn[3] = 8 /\ ConvWeight[3] = 3 /\ ConvStride[1] = 1
    /\ ConvPadding[1] = 1 /\ ConvDilation[1] = 1
    /\ ConvOutShape[3] = 8
    /\ ConvStride[2] = 2
    /\ Numerator(2) % 2 = 1
    /\ ConvOutShape[4] # ConvOutShape[3]

\* C19: convolution_rules always resolves (an output_spec, no suggestions),
\* to one descriptor with the mesh, the placements (dim map and pending
\* sums) and the dtype of the input descriptor, whatever the weight's and
\* the bias's descriptors are.
ConvInputSpec == conv_schema.args_schema[1]
BackwardInputSpec == conv_schema.args_schema[2]
UnshardedPartialOnFirst(spec) ==
    /\ spec.mesh = BackwardInputSpec.mesh
    /\ Len(spec.placements) = spec.mesh.ndim
    /\ \A d \in 1..Len(spec.tensor_meta.shape) : dim_map(spec)[d] = -1
    /\ sums(spec) = <<0>>
    /\ spec.placements[1] = Partial
    /\ \A m \in 2..Len(spec.placements) : spec.placements[m] = Replicate
C20_BackwardOutputs ==
    BackwardReturned =>
        /\ conv_out.schema_suggestions = NoSuggestions
        /\ Len(OutputDescriptors) = 3
        /\ OutputDescriptors[1].mesh = BackwardInputSpec.mesh
        /\ OutputDescriptors[1].placements = BackwardInputSpec.placements
        /\ OutputDescriptors[2].tensor_meta = conv_schema.args_schema[3].tensor_meta
        /\ UnshardedPartialOnFirst(OutputDescriptors[2])
        /\ OutputDescriptors[3].tensor_meta.shape = conv_schema.args_schema[4]
        /\ UnshardedPartialOnFirst(OutputDescriptors[3])

\* The rule returned for a sharded input on the two-dimensional mesh, a
\* grad_output placed otherwise and a weight sharded on another mesh.
C20_Witness ==
    /\ BackwardReturned
    /\ BackwardInputSpec.placements = <<Shard(0), Shard(3)>>
    /\ conv_schema.args_schema[1].placements # BackwardInputSpec.placements
    /\ conv_schema.args_schema[3].placements = <<Shard(0)>>
    /\ OutputDescriptors[1].placements = <<Shard(0), Shard(3)>>
    /\ OutputDescriptors[2].placements = <<Partial, Replicate>>
    /\ OutputDescriptors[3].placements = <<Partial, Replicate>>

\* ------------------------------------ claims on the tensor-parallel handlers
TpRanks == Ranks(tp_call.size)
Entered(rank) == tp_pc[rank] # "start"
\* The rank's handler raised at its entry, before it posted or called anything.
Rejected(rank) ==
    tp_pc[rank] = "raised" /\ tp_posted[rank] = <<>> /\ tp_calls[rank] = <<>>
\* The three conditions on the width dimension: index 1 of stride, padding and
\* dilation, index 3 of the two shapes.
WidthSupported(rank) ==
    LET width == Len(tp_in[rank])
    IN  /\ tp_call.dilation[2] = 1
        /\ tp_call.padding[2] # 0 =>
              tp_call.stride[2] = 1 /\ tp_call.kernel \div 2 <= width
        /\ tp_call.padding[2] = 0 =>
              width % tp_call.stride[2] = 0 /\ tp_call.stride[2] = tp_call.kernel

\* C21: _is_supported accepts a call exactly when the width dilation is 1,
\* and with non-zero width padding the width stride is 1 and half the kernel
\* width (rounded down) is at most the local input width, and with zero width
\* padding the local input width is a multiple of the width stride and the
\* stride equals the kernel width.  On every other input it raises a
\* RuntimeError; it never returns False, so the handler's assertion on its
\* result never fails.
C21_IsSupported ==
    \A rank \in TpRanks :
        Entered(rank) =>
            /\ Rejected(rank) <=> ~WidthSupported(rank)
            /\ Rejected(rank) => tp_out[rank].raised = "RuntimeError"
            /\ tp_out[rank].raised # "AssertionError"
C21_Witness ==
    \E rank \in TpRanks, other \in TpRanks :
        /\ Rejected(rank) /\ tp_out[rank].msg = Messages.kernel
        /\ Entered(other) /\ ~Rejected(other)
        /\ tp_call.kernel \div 2 = Len(tp_in[other])


\* The message of the first check of _is_supported that fails on the rank's
\* arguments, "" when none fails.
ExpectedMessage(rank) ==
    IF tp_call.dilation[2] # 1 THEN Messages.dilation
    ELSE IF tp_call.padding[2] # 0 /\ tp_call.stride[2] # 1 THEN Messages.stride
    ELSE IF tp_call.padding[2] # 0
            /\ tp_call.kernel \div 2 > Len(tp_in[rank]) THEN Messages.kernel
    ELSE IF tp_call.padding[2] = 0
            /\ ~(/\ Len(tp_in[rank]) % tp_call.stride[2] = 0
                 /\ tp_call.stride[2] = tp_call.kernel) THEN Messages.divisible
    ELSE ""

\* C22 as stated: whenever the dilation is not 1 in every spatial dimension,
\* the handler raises the dilation RuntimeError and has posted no
\* point-to-point operation and called no local operator.
C22_AnyDilationRejected ==
    \A rank \in TpRanks :
        Entered(rank) /\ tp_call.dilation # <<1, 1>> =>
            /\ Rejected(rank)
            /\ tp_out[rank] = Raised("RuntimeError", Messages.dilation)

\* C22 amended: whenever the precondition check fails on a rank -- in
\* particular whenever the width dilation, dilation[1], is not 1, as with
\* dilation (2, 2) -- the handler raises the RuntimeError of the failed check
\* and that rank posts no point-to-point operation and calls no local
\* operator, then or later; a rank raises such an error only for a check
\* that failed (a dilation of the height alone is not rejected).
C22_RejectedBeforeExchange ==
    \A rank \in TpRanks :
        Entered(rank) =>
            /\ ExpectedMessage(rank) # "" =>
                  /\ tp_out[rank] = Raised("RuntimeError", ExpectedMessage(rank))
                  /\ tp_pc[rank] = "raised"
                  /\ tp_posted[rank] = <<>>
                  /\ tp_calls[rank] = <<>>
            /\ Rejected(rank) => tp_out[rank].msg = ExpectedMessage(rank)
C22_Witness ==
    \E rank \in TpRanks :
        /\ tp_call.dilation = <<2, 2>>
        /\ Rejected(rank)
        /\ tp_out[rank] = Raised("RuntimeError", Messages.dilation)
        /\ \A other \in TpRanks : tp_posted[other] = <<>>


\* The oracle of the halo exchange: the plain convolution of the gathered
\* input, and the even shard of its output columns that belongs to a rank.
GlobalInput == cat([r \in 1..tp_call.size |-> tp_in[r - 1]])
Oracle ==
    convolution(GlobalInput, tp_call.kernel, tp_call.stride[2],
                tp_call.padding[2])
OracleShard(rank) ==
    LET n == Len(Oracle) \div tp_call.size
    IN  SubSeq(Oracle, rank * n + 1, (rank + 1) * n)
EqualWidths == \A r \in TpRanks : Len(tp_in[r]) = Len(tp_in[0])
ForwardReturned_(rank) ==
    /\ tp_call.op_call = convolution_default
    /\ tp_pc[rank] = "returned"

\* C23: for world sizes 2 and 4 and every call _is_supported accepts, the
\* result tp_convolution returns on a rank is that rank's even shard of the
\* plain convolution of the gathered input: the same output columns, each
\* computed from the same global input columns and zero padding.
C23_HaloExchangeCorrect ==
    \A rank \in TpRanks :
        /\ tp_call.size \in {2, 4}
        /\ EqualWidths
        /\ ForwardReturned_(rank)
        => tp_out[rank] = Returned(OracleShard(rank))
\* ... and where it does hold: an odd kernel width with padding d1.
C23_SamePaddingCorrect ==
    \A rank \in TpRanks :
        /\ tp_call.size \in {2, 4}
        /\ EqualWidths
        /\ ForwardReturned_(rank)
        /\ tp_call.padding[2] = 0
           \/ /\ tp_call.kernel % 2 = 1
              /\ tp_call.kernel > 1
              /\ tp_call.padding[2] = halo_d1(weight_shape(tp_call.kernel))
        => tp_out[rank] = Returned(OracleShard(rank))


\* C24: with world size 1, for every call _is_supported accepts,
\* tp_convolution returns the result of the plain local convolution of its
\* input and posts no point-to-point send or receive.
C24_WorldSizeOne ==
    tp_call.size = 1 /\ tp_call.op_call = convolution_default =>
        /\ tp_posted[0] = <<>>
        /\ tp_pc[0] = "returned" =>
              tp_out[0] = Returned(convolution(tp_in[0], tp_call.kernel,
                                               tp_call.stride[2],
                                               tp_call.padding[2]))
\* ... which does hold when the width padding is 0.
C24_WorldSizeOneNoPadding ==
    tp_call.size = 1 /\ tp_call.op_call = convolution_default
    /\ tp_call.padding[2] = 0 => C24_WorldSizeOne


\* C25: on every rank the local operator (convolution or
\* convolution_backward) is invoked only when all four requests of the
\* rank's preceding batched exchange have completed: every local call a rank
\* made after posting found each of its requests complete, and a rank that
\* posted and has not got all four completed has made no call.
C25_LocalOpAfterWait ==
    \A rank \in TpRanks :
        /\ \A i \in 1..Len(tp_calls[rank]) : tp_calls[rank][i].completed
        /\ tp_pc[rank] = "wait" /\ ~(\A j \in 1..4 : tp_reqs[rank][j].done)
              => tp_calls[rank] = <<>>
C25_Witness ==
    \E rank \in TpRanks :
        /\ tp_call.size >= 3
        /\ rank \notin {0, tp_call.size - 1}
        /\ Len(tp_posted[rank]) >= 4
        /\ tp_calls[rank] # <<>>
        /\ tp_call.op_call = convolution_backward_default


HaloPosted(rank) == tp_pc[rank] = "wait"
Rightmost(t, n) == SubSeq(t, Len(t) - n + 1, Len(t))
Leftmost(t, n) == SubSeq(t, 1, n)

\* C26: with d = k - 1, d1 = d div 2 and d2 = d - d1, the message a rank posts
\* to its right neighbour is its rightmost d1 input columns and the message
\* to its left neighbour its leftmost d2 input columns (no column when that
\* width is 0), and the buffer it fills from each neighbour has the width of
\* the message that neighbour sends to it.
C26_HaloMessages ==
    \A rank \in TpRanks :
        HaloPosted(rank) =>
            LET d == tp_call.kernel - 1
                d1 == d \div 2
                d2 == d - d1
                ops == tp_posted[rank]
                l == left_of(rank, tp_call.size)
                r == right_of(rank, tp_call.size)
            IN  /\ ops[1] = P2POp("isend", Rightmost(tp_in[rank], d1), r)
                /\ ops[2] = P2POp("isend", Leftmost(tp_in[rank], d2), l)
                /\ HaloPosted(l) =>
                      Len(recv_from_left(tp_reqs[rank]))
                          = Len(tp_posted[l][1].tensor)
                /\ HaloPosted(r) =>
                      Len(recv_from_right(tp_reqs[rank]))
                          = Len(tp_posted[r][2].tensor)
\* ... which does hold for kernel widths of 3 and more.
C26_HaloMessagesWide == tp_call.kernel >= 3 => C26_HaloMessages


FirstCallOf(rank) == tp_calls[rank][1]
Exchanged(rank) ==
    requires_data_exchange(tp_call.padding) /\ tp_calls[rank] # <<>>

\* C27 as stated: edge ranks exchange with one neighbour only.  In a ring of
\* three or more ranks, rank 0 posts no operation whose peer is rank size-1,
\* rank size-1 none whose peer is rank 0, and no message is on the link
\* between them.
C27_NoWrapAround ==
    tp_call.size >= 3 =>
        LET last == tp_call.size - 1
        IN  /\ \A i \in 1..Len(tp_posted[0]) : tp_posted[0][i].peer # last
            /\ \A i \in 1..Len(tp_posted[last]) : tp_posted[last][i].peer # 0
            /\ tp_net[<<0, last>>] = <<>>
            /\ tp_net[<<last, 0>>] = <<>>

\* C27 amended: every rank, the edge ranks included, posts all four
\* operations of an exchange -- a send to and a receive from each of its two
\* ring neighbours, so rank 0 and rank size-1 do exchange messages over the
\* wrap-around link -- but an edge rank uses one neighbour's halo only: the
\* input rank 0 hands to the local operator is its own columns followed by
\* the message its right neighbour sent to the left, and the input of rank
\* size-1 is the message its left neighbour sent to the right followed by its
\* own columns.
C27_EdgeRanksUseOneHalo ==
    \A rank \in TpRanks :
        LET l == left_of(rank, tp_call.size)
            r == right_of(rank, tp_call.size)
            ops == tp_posted[rank]
        IN  /\ Len(ops) \in {0, 4, 8}
            /\ \A b \in {0, 4} :
                  Len(ops) >= b + 4 =>
                      /\ <<ops[b + 1].op, ops[b + 1].peer>> = <<"isend", r>>
                      /\ <<ops[b + 2].op, ops[b + 2].peer>> = <<"isend", l>>
                      /\ <<ops[b + 3].op, ops[b + 3].peer>> = <<"irecv", l>>
                      /\ <<ops[b + 4].op, ops[b + 4].peer>> = <<"irecv", r>>
            /\ tp_call.size >= 2 /\ Exchanged(rank) =>
                  FirstCallOf(rank).in_tensor =
                      IF rank = 0
                      THEN tp_in[rank] \o tp_posted[r][2].tensor
                      ELSE IF rank = tp_call.size - 1
                      THEN tp_posted[l][1].tensor \o tp_in[rank]
                      ELSE tp_posted[l][1].tensor \o tp_in[rank]
                               \o tp_posted[r][2].tensor
C27_Witness ==
    /\ tp_call.size >= 3
    /\ Exchanged(0)
    /\ Exchanged(tp_call.size - 1)
    /\ tp_posted[0][2].peer = tp_call.size - 1
    /\ tp_posted[0][2].tensor # <<>>
    /\ tp_posted[tp_call.size - 1][1].peer = 0
    /\ tp_posted[tp_call.size - 1][1].tensor # <<>>


\* The operations of the rank's current batch, as they were posted.
Waiting(rank) == tp_pc[rank] \in {"wait", "wait_grad"}
BatchStart(rank) == IF tp_pc[rank] = "wait_grad" THEN 4 ELSE 0
SendWidth(rank, i) == Len(tp_posted[rank][BatchStart(rank) + i].tensor)
BufferWidth(rank, i) == Len(tp_posted[rank][BatchStart(rank) + i].tensor)
Accepted == \A rank \in TpRanks : WidthSupported(rank)
AllReturned == \A rank \in TpRanks : tp_pc[rank] = "returned"

\* C28: when all ranks of a ring of two or more ranks call the same handler
\* with the same hyperparameters on local inputs of equal shape and the call
\* is accepted, every posted send has one matching receive of the same width
\* at its destination -- the send to the right neighbour matches that
\* neighbour's receive from its left, the send to the left neighbour matches
\* that neighbour's receive from its right -- no rank's wait fails, and once
\* all ranks have returned no message is left undelivered.
C28_ExchangeMatched ==
    tp_call.size >= 2 /\ EqualWidths /\ Accepted =>
        /\ \A rank \in TpRanks :
              LET l == left_of(rank, tp_call.size)
                  r == right_of(rank, tp_call.size)
              IN  Waiting(rank) =>
                      /\ tp_pc[r] = tp_pc[rank] =>
                            SendWidth(rank, 1) = BufferWidth(r, 3)
                      /\ tp_pc[l] = tp_pc[rank] =>
                            SendWidth(rank, 2) = BufferWidth(l, 4)
        /\ \A rank \in TpRanks :
              tp_out[rank] # Raised("RuntimeError", Messages.recv)
        /\ AllReturned => \A l \in DOMAIN tp_net : tp_net[l] = <<>>
\* ... which does hold for tp_convolution.
C28_ForwardExchangeMatched ==
    tp_call.op_call = convolution_default => C28_ExchangeMatched


\* The tensor whose edges the peer sends in the exchange the rank waits in,
\* and the two halo widths of that exchange.
ExchangedTensor(rank, peer) ==
    IF tp_pc[rank] = "wait" THEN tp_in[peer] ELSE tp_grad[peer]
WidthToRight(rank) ==
    IF tp_pc[rank] = "wait" THEN halo_d1(weight_shape(tp_call.kernel))
    ELSE halo_d2(weight_shape(tp_call.kernel))
WidthToLeft(rank) ==
    IF tp_pc[rank] = "wait" THEN halo_d2(weight_shape(tp_call.kernel))
    ELSE halo_d1(weight_shape(tp_call.kernel))

\* C29: with world size 2 the left and the right neighbour of a rank are the
\* same peer, and the messages between the two are matched in posting order.
\* A rank's recv_from_left is then filled by the message the peer sent to its
\* right, and its recv_from_right by the message the peer sent to its left,
\* never the other way round.
C29_NotSwapped ==
    tp_call.size = 2 =>
        \A rank \in TpRanks :
            LET peer == 1 - rank
            IN  Waiting(rank) =>
                    /\ tp_reqs[rank][3].done =>
                          recv_from_left(tp_reqs[rank]) =
                              send_to_right(ExchangedTensor(rank, peer),
                                            WidthToRight(rank))
                    /\ tp_reqs[rank][4].done =>
                          recv_from_right(tp_reqs[rank]) =
                              send_to_left(ExchangedTensor(rank, peer),
                                           WidthToLeft(rank))
C29_Witness ==
    /\ tp_call.size = 2
    /\ \E rank \in TpRanks :
          /\ tp_pc[rank] = "wait_grad"
          /\ tp_reqs[rank][3].done
          /\ tp_reqs[rank][4].done
          /\ recv_from_left(tp_reqs[rank]) # recv_from_right(tp_reqs[rank])
          /\ recv_from_left(tp_reqs[rank]) # <<>>
          /\ recv_from_right(tp_reqs[rank]) # <<>>


Neighbours(rank) ==
    {left_of(rank, tp_call.size), right_of(rank, tp_call.size)}
\* The rank has posted its halo exchange and a ring neighbour of it raised in
\* its own precondition check, so that neighbour never posts.
NeighbourNeverPosts(rank) ==
    /\ rank \in TpRanks
    /\ tp_posted[rank] # <<>>
    /\ \E n \in Neighbours(rank) : Rejected(n)
BlockedInWait(rank) ==
    /\ rank \in TpRanks
    /\ tp_pc[rank] = "wait"
    /\ tp_calls[rank] = <<>>
    /\ tp_out[rank] = Returned(<<>>)
    /\ \E j \in 1..Len(tp_reqs[rank]) : ~tp_reqs[rank][j].done

\* C30: there is no timeout and no cancellation.  A rank that has posted its
\* requests while a ring neighbour never posts the matching operations,
\* because that neighbour's own precondition check raised, is blocked in
\* wait() from then on: it never calls the local operator, never returns and
\* never raises.  (Such a rank is blocked in every state, and once a rank is
\* in this situation it stays in it.)
C30_BlockedForever ==
    /\ [](\A rank \in TpRanks :
             NeighbourNeverPosts(rank) => BlockedInWait(rank))
    /\ [][\A rank \in TpRanks :
             NeighbourNeverPosts(rank) => NeighbourNeverPosts(rank)']_vars
C30_Witness ==
    \E rank \in TpRanks :
        /\ NeighbourNeverPosts(rank)
        /\ BlockedInWait(rank)
        /\ \A other \in TpRanks \ {rank} : Rejected(other)
        /\ tp_net[<<rank, right_of(rank, tp_call.size)>>] # <<>>


\* The rank's call was accepted by the precondition check.
AcceptedAtEntry(rank) == Entered(rank) /\ ~Rejected(rank)
\* What the local operator of the call returns on the arguments it was
\* called with.
LocalResult(rank, call) ==
    IF call.op_call = convolution_default
    THEN convolution(call.in_tensor, tp_call.kernel, tp_call.stride[2],
                     tp_call.padding[2])
    ELSE <<convolution_backward(rank, call.in_tensor)>>

\* C31: when the width padding is 0 and the call is accepted, the handler,
\* forward or backward, on any rank and for any world size, posts no
\* point-to-point operation (no request, no message on a link from the
\* rank), calls the local operator once with the unmodified local input, and
\* returns exactly what that call returned.
C31_NoExchangeWithoutPadding ==
    \A rank \in TpRanks :
        AcceptedAtEntry(rank) /\ tp_call.padding[2] = 0 =>
            /\ tp_posted[rank] = <<>>
            /\ tp_reqs[rank] = <<>>
            /\ \A peer \in TpRanks : tp_net[<<rank, peer>>] = <<>>
            /\ tp_pc[rank] \in {"supported", "returned"}
            /\ tp_pc[rank] = "returned" =>
                  /\ Len(tp_calls[rank]) = 1
                  /\ tp_calls[rank][1].op_call = tp_call.op_call
                  /\ tp_calls[rank][1].in_tensor = tp_in[rank]
                  /\ tp_in[rank] = local_input(tp_call.widths, rank)
                  /\ tp_out[rank] = Returned(LocalResult(rank, tp_calls[rank][1]))
C31_Witness ==
    /\ tp_call.size = 3
    /\ tp_call.padding = <<1, 0>>
    /\ tp_call.op_call = convolution_backward_default
    /\ \A rank \in TpRanks :
          tp_pc[rank] = "returned" /\ tp_out[rank].value[1] # <<>>

\* The ranks other than rank whose reconstructed input held a copy of the
\* global input column col, and so computed a contribution to its gradient.
HaloHolders(rank, col) ==
    {other \in TpRanks \ {rank} :
        /\ tp_calls[other] # <<>>
        /\ \E i \in 1..Len(tp_calls[other][1].in_tensor) :
              LET column == tp_calls[other][1].in_tensor[i]
              IN  column # <<>> /\ column[1].col = col}
\* The terms of a column that one rank contributed.
TermsBy(column, by) == {t \in 1..Len(column) : column[t].by = by}
BackwardExchanged(rank) ==
    /\ tp_call.op_call = convolution_backward_default
    /\ tp_call.padding[2] # 0
    /\ tp_pc[rank] \in {"wait_grad", "returned", "raised"}
    /\ tp_calls[rank] # <<>>

\* C32 as stated: in tp_convolution_backward with data exchange, for every
\* accepted kernel width, a rank that has run the local convolution_backward
\* never fails afterwards, and the grad_input it returns has the width of its
\* original local input, column i holding the rank's own contribution to the
\* gradient of its input column i once and each neighbour's contribution to
\* that column exactly once.
C32_SecondExchangeAggregates ==
    \A rank \in TpRanks :
        BackwardExchanged(rank) =>
            /\ tp_pc[rank] # "raised"
            /\ tp_pc[rank] = "returned" =>
                  LET grad_in == tp_out[rank].value[1][1]
                  IN  /\ Len(grad_in) = Len(tp_in[rank])
                      /\ \A i \in 1..Len(tp_in[rank]) :
                            LET col == tp_in[rank][i][1].col
                            IN  /\ \A t \in 1..Len(grad_in[i]) :
                                      grad_in[i][t].col = col
                                /\ Cardinality(TermsBy(grad_in[i], rank)) = 1
                                /\ \A other \in TpRanks \ {rank} :
                                      Cardinality(TermsBy(grad_in[i], other)) =
                                          IF other \in HaloHolders(rank, col)
                                          THEN 1 ELSE 0

\* The same for kernel widths of 3 and more in a ring of at least two ranks,
\* where neither halo width is 0 and no rank exchanges with itself.
C32_WideKernelAggregates ==
    tp_call.kernel >= 3 /\ tp_call.size >= 2 => C32_SecondExchangeAggregates

\* ---------------------------------------- claims on descriptor identity
\* C33 as stated: no registered rule returns as an output descriptor an
\* object that is one of the input descriptors of the OpSchema: every output
\* descriptor is an object the rule constructed, no two outputs are the same
\* object, and the schema's descriptors are those the rule was called with.
C33_FreshOutputDescriptors ==
    RuleReturned =>
        /\ Len(conv_objects) = Len(OutputDescriptors)
        /\ \A i \in 1..Len(conv_objects) : conv_objects[i].from = "constructed"
        /\ \A i, j \in 1..Len(conv_objects) :
              i # j => conv_objects[i] # conv_objects[j]
        /\ conv_schema.args_schema \in
              ConvolutionCalls \cup ConvolutionBackwardCalls

\* What does hold: the forward rule returns a constructed object, and the
\* backward rule returns constructed objects for grad_weight and grad_bias
\* and, as grad_input, the very descriptor object of its input argument.
C33_OnlyGradInputShared ==
    RuleReturned =>
        /\ Len(conv_objects) = Len(OutputDescriptors)
        /\ \A i \in 1..Len(conv_objects) :
              IF conv_op = convolution_backward_default /\ i = 1
              THEN /\ conv_objects[i] = [from |-> "args_schema", at |-> 2]
                   /\ OutputDescriptors[i] = InputDescriptors[2]
                   /\ InputDescriptors[2] = conv_schema.args_schema[2]
              ELSE conv_objects[i].from = "constructed"
        /\ conv_schema.args_schema \in
              ConvolutionCalls \cup ConvolutionBackwardCalls

\* ------------------------------------------- claims on the packed arguments
\* The local shards the local operator may be given for a distributed
\* tensor: its own, or that of a redistribution of it.
ShardsOf(n) ==
    {local_of[n]} \cup
    {local_of[redist_log[r].new] :
        r \in {q \in 1..Len(redist_log) : redist_log[q].src = n}}

\* C34: on the resolved path the local operator is invoked with an argument
\* tree of the same shape as the caller's args and kwargs (as many positional
\* arguments, each a list or not as in the call and with as many leaves; the
\* same keyword names in the same order).  Each distributed-tensor leaf is
\* replaced by a local shard, every other leaf is the value at the same
\* flattened position of the target schema, and the pairing is well defined:
\* the target schema has as many leaves as the call, a descriptor exactly
\* opposite each distributed tensor -- for the schema built from the call and
\* for a suggestion that differs from it only in descriptors.
C34_LocalArgumentTree ==
    LocalOpInvoked =>
        /\ call_log[1].fn = "local_op"
        /\ Len(TargetFlat) = Len(DispatchFlat)
        /\ \A i \in 1..Len(DispatchFlat) :
              TargetFlat[i].k = "spec" <=> DispatchFlat[i].k = "dt"
        /\ Len(call_log[1].args) = Len(args)
        /\ \A i \in 1..Len(args) :
              /\ call_log[1].args[i].list = args[i].list
              /\ Len(call_log[1].args[i].leaves) = Len(args[i].leaves)
        /\ Len(call_log[1].kwargs) = Len(kwargs)
        /\ \A i \in 1..Len(kwargs) : call_log[1].kwargs[i].name = kwargs[i].name
        /\ \A i \in 1..Len(DispatchFlat) :
              IF DispatchFlat[i].k = "dt"
              THEN /\ LoggedFlat[i].k = "local"
                   /\ LoggedFlat[i].n \in ShardsOf(DispatchFlat[i].n)
              ELSE /\ LoggedFlat[i] = TargetFlat[i]
                   /\ LoggedFlat[i] = DispatchFlat[i]
C34_Witness ==
    /\ LocalOpInvoked
    /\ redistribute
    /\ op_call = cat_default
    /\ Len(args) = 2
    /\ call_log[1].args[1].list /\ Len(call_log[1].args[1].leaves) = 2
    /\ call_log[1].args[2] = Leaf(ValueLeaf(0))

\* ----------------------------------- claims on the data of returned tensors
\* The tensors the local operator wrote its result into: for an in-place
\* operator its first positional argument, for an out variant the keyword
\* arguments the schema declares as out, in declaration order.
WrittenInto ==
    IF target_schema.is_inplace
    THEN <<call_log[1].args[1].leaves[1]>>
    ELSE [k \in 1..Len(OutArguments) |->
             kwargs_get(call_log[1].kwargs, OutArguments[k].name)[1]]

\* C35 as stated: for in-place and out-variant dispatches, with or without
\* redistribution, the local shard held by each returned distributed tensor
\* is the very tensor the local operator wrote its result into.
C35_ReturnedHoldsResult ==
    InplaceReturned \/ OutVariantReturned =>
        /\ Len(result.items) = Len(WrittenInto)
        /\ \A k \in 1..Len(result.items) :
              /\ result.items[k].k = "dt"
              /\ WrittenInto[k] = LocalLeaf(local_of[result.items[k].n])

\* The same for the dispatches that redistributed nothing, or whose
\* redistribution left every written tensor's shard in place.
C35_HoldsWithoutRedistribution ==
    (\A r \in 1..Len(redist_log) :
        local_of[redist_log[r].new] = local_of[redist_log[r].src])
        => C35_ReturnedHoldsResult

\* -------------------------------------------- claims on the dispatcher's state
\* The branch the registries' contents select for the call.
RegistryRoute ==
    IF op_call \in CURRENT_DECOMPOSITION_TABLE THEN "decomposition"
    ELSE IF str(op_call) \in DOMAIN custom_dispatch_ops THEN "custom"
    ELSE IF str(op_call) \in op_to_rules THEN "rule"
    ELSE IF enable_fallback THEN "fallback"
    ELSE "no rule"
\* The branch the dispatch is on, read off what it has done.
RouteTaken ==
    IF propagated = Raise(NoError, <<>>)
    THEN (IF call_log[1].fn = "decomposition" THEN "decomposition" ELSE "custom")
    ELSE IF propagated.rule_calls # <<>> THEN "rule"
    ELSE IF propagated.kind = "return" THEN "fallback"
    ELSE "no rule"

DescriptorsIn(args_schema) ==
    SelectSeq(tree_flatten(args_schema), LAMBDA x : x.k = "spec")

\* C37 as stated: args_spec of the schema a dispatch works on yields exactly
\* the Sharding Descriptors present in its args_schema, in order, those that
\* replaced distributed tensors nested inside container arguments included,
\* and nothing else.
C37_ArgsSpecAllDescriptors ==
    propagated.kind = "return" /\ propagated.target_schema # <<>> =>
        args_spec(target_schema.args_schema) = DescriptorsIn(target_schema.args_schema)

\* What does hold: args_spec yields the descriptors that are themselves
\* positional arguments, in order, and nothing else; a descriptor inside a
\* list argument is left out.
C37_ArgsSpecTopLevelOnly ==
    propagated.kind = "return" /\ propagated.target_schema # <<>> =>
        LET top == SelectSeq(target_schema.args_schema, LAMBDA a : ~a.list)
        IN  args_spec(target_schema.args_schema) =
                DescriptorsIn(SelectSeq(top, LAMBDA a : a.leaves[1].k = "spec"))

\* The schemas the rule was called on and the one the dispatcher branches on.
SchemasOfDispatch ==
    {propagated.rule_calls[i] : i \in 1..Len(propagated.rule_calls)}
    \cup {propagated.target_schema[i] : i \in 1..Len(propagated.target_schema)}
EndsWithUnderscore(name) == name # <<>> /\ name[Len(name)] = "_"
ContainsOut(name) ==
    \E i \in 1..Len(name), j \in 1..Len(name) :
        i <= j /\ SubSeq(name, i, j) = <<"o", "u", "t">>

\* C38: for every OpSchema of a dispatch -- the one built from the call and
\* a suggestion the rule constructed, whatever it passed for the flags --
\* is_inplace is true iff the operator name ends with "_" and is_out_variant
\* is true iff the overload name contains "out"; the function schema is the
\* called operator's, and the schema the dispatcher branches on does not
\* change once propagation has returned it.
C38_FlagsFromFunctionSchema ==
    /\ [](\A schema \in SchemasOfDispatch :
             /\ schema.func_schema = op_call.schema
             /\ schema.is_inplace <=> EndsWithUnderscore(schema.func_schema.name)
             /\ schema.is_out_variant <=> ContainsOut(schema.func_schema.overload_name))
    /\ [][propagated.target_schema # <<>> => propagated' = propagated]_vars
C38_Witness ==
    /\ pc = "returned"
    /\ redistribute
    /\ op_call = add__Tensor
    /\ target_schema.is_inplace /\ ~target_schema.is_out_variant
    /\ Len(propagated.rule_calls) = 2
    /\ rule_first.os.schema_suggestions.list[1] = target_schema

====
